---- MODULE Spec2Model ----
(***************************************************************************)
(* A model of the RBF interpolation engine (class RbfInterpolator and the  *)
(* rbf() convenience function).                                            *)
(*                                                                         *)
(* Numbers.  A JavaScript number is an IEEE-754 binary64 value, modelled   *)
(* bit for bit as <<s, E, H, L>>: the sign bit, the biased exponent (0 for *)
(* zero and subnormals, 2047 for Infinity and NaN) and the significand     *)
(* H * 2^28 + L, which includes the hidden bit of a normal number.  +, -,  *)
(* * and / round to nearest, ties to even; Math.sqrt is correctly rounded; *)
(* Math.log, Math.exp and ** follow the fdlibm algorithms the JavaScript   *)
(* engine uses, operation by operation.                                    *)
(***************************************************************************)
EXTENDS Integers, Sequences, FiniteSets, TLC

\* ------------------------------------------------------------------------
\* JavaScript numbers: IEEE-754 binary64
\* ------------------------------------------------------------------------
\* The arithmetic operators work on the significands as pairs of 28-bit
\* halves.  A library function is the list of the operations of its
\* statements, as instructions over a record of its local variables
\* (SqrtStep, LogStep, ExpStep, PowStep); RunSqrt, RunLog, RunExp and
\* RunPow execute them in order.
\*
\* the bases the significands are cut into: 2^14 and 2^28
B14 == 16384

B28 == 268435456

NaN == <<0, 2047, 1, 0>>

Infinity(s) == <<s, 2047, 0, 0>>

SignedZero(s) == <<s, 0, 0, 0>>

Zero == SignedZero(0)

One == <<0, 1023, 16777216, 0>>

IsNaN(x) == x[2] = 2047 /\ (x[3] # 0 \/ x[4] # 0)

IsInf(x) == x[2] = 2047 /\ x[3] = 0 /\ x[4] = 0

IsZero(x) == x[2] = 0 /\ x[3] = 0 /\ x[4] = 0

\* the sign of a product or a quotient of x and y
SignOf(x, y) == IF x[1] = y[1] THEN 0 ELSE 1

\* v # 0 has `width' bits less z, -1 <= z < width
LeadingZeros(v, width) == CHOOSE z \in -1..(width - 1) : v \div 2^(width - 1 - z) = 1

\* A wide integer is a pair <<H, L>> standing for H * 2^28 + L, 0 <= L < 2^28.
\* <<h, l>> with the lowest bit set if st: the bit that remembers that ones
\* were shifted out (sticky)
Sticky(h, l, st) == <<h, IF st /\ (l % 2) = 0 THEN l + 1 ELSE l>>

\* N shifted right by d > 0 bits, sticky
ShiftRight(N, d) ==
    CASE d >= 58 -> <<0, IF N = <<0, 0>> THEN 0 ELSE 1>>
      [] d >= 28 /\ d < 58 ->
            Sticky(0, N[1] \div 2^(d - 28), (N[1] % 2^(d - 28)) # 0 \/ N[2] # 0)
      [] d < 28 ->
            Sticky(N[1] \div 2^d, (N[1] % 2^d) * 2^(28 - d) + (N[2] \div 2^d),
                   (N[2] % 2^d) # 0)

\* N shifted left by z bits, 0 <= z <= 55, the result below 2^56
ShiftLeft(N, z) ==
    IF z >= 28 THEN <<N[2] * 2^(z - 28), 0>>
    ELSE <<N[1] * 2^z + (N[2] \div 2^(28 - z)), (N[2] % 2^(28 - z)) * 2^z>>

\* N shifted left by d bits, or right by -d bits if d < 0
Shift(N, d) == IF d >= 0 THEN ShiftLeft(N, d) ELSE ShiftRight(N, -d)

\* X + Y and X - Y (X >= Y) on wide integers
AddWide(X, Y) == <<X[1] + Y[1] + ((X[2] + Y[2]) \div B28), (X[2] + Y[2]) % B28>>

SubWide(X, Y) ==
    <<X[1] - Y[1] - (IF X[2] < Y[2] THEN 1 ELSE 0), (X[2] - Y[2] + B28) % B28>>

\* The last step of rounding: the significand <<mh, ml>> of 53 bits, or of 54
\* when rounding up has carried into 2^53, with the biased exponent E0 (0 for
\* a subnormal number).
RoundCarry(s, E0, M) ==
    CASE E0 = 0 -> <<s, IF M[1] >= 16777216 THEN 1 ELSE 0, M[1], M[2]>>
      [] E0 # 0 /\ M[1] = 33554432 ->
            IF E0 + 1 >= 2047 THEN Infinity(s) ELSE <<s, E0 + 1, 16777216, 0>>
      [] E0 # 0 /\ M[1] # 33554432 ->
            IF E0 >= 2047 THEN Infinity(s) ELSE <<s, E0, M[1], M[2]>>

\* D < 2^56 has three bits more than the significand: they are rounded
\* away, to nearest and on a tie to even.
RoundAt(s, E0, D) ==
    RoundCarry(s, E0,
               IF (D[2] % 8) > 4 \/ ((D[2] % 8) = 4 /\ ((D[2] \div 8) % 2) = 1)
               THEN AddWide(<<D[1] \div 8, (D[1] % 8) * 33554432 + (D[2] \div 8)>>,
                            <<0, 1>>)
               ELSE <<D[1] \div 8, (D[1] % 8) * 33554432 + (D[2] \div 8)>>)

\* N # 0 is z bits short of 56 bits (z = -1: it has 57), so the exponent of
\* the result is e - z; below the normal range the number is shifted to the
\* exponent of the subnormal numbers instead.
RoundNorm(s, e, N, z) ==
    RoundAt(s, IF e - z + 1023 >= 1 THEN e - z + 1023 ELSE 0,
            Shift(N, IF e - z + 1023 >= 1 THEN z ELSE e + 1022))

\* The double nearest to (-1)^s * N * 2^(e - 55), ties to even; N < 2^57, its
\* lowest bit sticky.
RoundPack(s, e, N) ==
    IF N = <<0, 0>> THEN SignedZero(s)
    ELSE RoundNorm(s, e, N, IF N[1] # 0 THEN LeadingZeros(N[1], 28)
                            ELSE 28 + LeadingZeros(N[2], 28))

\* the unbiased exponent of a finite number, that of its lowest significand
\* bit being this minus 52
Expo(x) == IF x[2] = 0 THEN -1022 ELSE x[2] - 1023

\* a finite nonzero number as <<e, H, L>> with 2^52 <= H * 2^28 + L < 2^53
Normal(x) ==
    CASE x[2] # 0 -> <<x[2] - 1023, x[3], x[4]>>
      [] x[2] = 0 /\ x[3] # 0 ->
            <<-1022 - LeadingZeros(x[3], 25)>>
                \o ShiftLeft(<<x[3], x[4]>>, LeadingZeros(x[3], 25))
      [] x[2] = 0 /\ x[3] = 0 ->
            <<-1047 - LeadingZeros(x[4], 28)>>
                \o ShiftLeft(<<0, x[4]>>, 25 + LeadingZeros(x[4], 28))

\* the significand N with three more bits below it
Times8(N) == <<N[1] * 8 + (N[2] \div 33554432), (N[2] % 33554432) * 8>>

\* the magnitude of x is below that of y, x and y not NaN
MagLess(x, y) ==
    \/ x[2] < y[2]
    \/ x[2] = y[2] /\ (x[3] < y[3] \/ (x[3] = y[3] /\ x[4] < y[4]))

\* X and Y are the significands of x and y, three bits below each, Y aligned
\* to X and not above it: they are added if the signs agree, else Y is
\* taken from X, a difference of zero being +0
AddAligned(x, y, X, Y) ==
    IF x[1] # y[1] /\ X = Y THEN Zero
    ELSE RoundPack(x[1], Expo(x),
                   IF x[1] = y[1] THEN AddWide(X, Y) ELSE SubWide(X, Y))

\* x + y for finite nonzero x and y, the magnitude of y not above that of x
AddOrdered(x, y) ==
    AddAligned(x, y, Times8(<<x[3], x[4]>>),
               IF Expo(x) = Expo(y) THEN Times8(<<y[3], y[4]>>)
               ELSE ShiftRight(Times8(<<y[3], y[4]>>), Expo(x) - Expo(y)))

\* x + y where x or y is NaN, an infinity or a zero
AddSpecial(x, y) ==
    CASE IsNaN(x) \/ IsNaN(y) -> NaN
      [] IsInf(x) /\ IsInf(y) -> IF x[1] # y[1] THEN NaN ELSE x
      [] IsInf(x) /\ y[2] # 2047 -> x
      [] IsInf(y) /\ x[2] # 2047 -> y
      [] x[2] # 2047 /\ y[2] # 2047 /\ IsZero(x) /\ IsZero(y) ->
            SignedZero(IF x[1] = 1 /\ y[1] = 1 THEN 1 ELSE 0)
      [] x[2] # 2047 /\ y[2] # 2047 /\ IsZero(x) /\ ~IsZero(y) -> y
      [] x[2] # 2047 /\ y[2] # 2047 /\ ~IsZero(x) -> x

\* x + y
Add(x, y) ==
    CASE x[2] = 2047 \/ y[2] = 2047 \/ IsZero(x) \/ IsZero(y) -> AddSpecial(x, y)
      [] OTHER -> AddOrdered(IF MagLess(x, y) THEN y ELSE x,
                             IF MagLess(x, y) THEN x ELSE y)

\* -x
Neg(x) == IF IsNaN(x) THEN NaN ELSE <<1 - x[1], x[2], x[3], x[4]>>

\* x - y
Sub(x, y) == Add(x, Neg(y))

\* the columns s0..s6 of a product in base 2^14, with the carries passed
\* on, as four parts of 28 bits, the lowest first
MulCarries(s0, s1, s2, s3, s4, s5, s6) ==
    LET c1 == s1 + (s0 \div B14)
        c2 == s2 + (c1 \div B14)
        c3 == s3 + (c2 \div B14)
        c4 == s4 + (c3 \div B14)
        c5 == s5 + (c4 \div B14)
    IN  <<(c1 % B14) * B14 + (s0 % B14),
          (c3 % B14) * B14 + (c2 % B14),
          (c5 % B14) * B14 + (c4 % B14),
          s6 + (c5 \div B14)>>

\* the product of two numbers given by their digits in base 2^14, the
\* lowest digit first
MulDigits(a, b) ==
    MulCarries(a[1] * b[1],
               a[1] * b[2] + a[2] * b[1],
               a[1] * b[3] + a[2] * b[2] + a[3] * b[1],
               a[1] * b[4] + a[2] * b[3] + a[3] * b[2] + a[4] * b[1],
               a[2] * b[4] + a[3] * b[3] + a[4] * b[2],
               a[3] * b[4] + a[4] * b[3],
               a[4] * b[4])

\* the digits of a wide integer below 2^56 in base 2^14, the lowest first
Digits(A) == <<A[2] % B14, A[2] \div B14, A[1] % B14, A[1] \div B14>>

\* the product of two wide integers below 2^56, as four parts of 28 bits,
\* the lowest first
MulWide(A, B) == MulDigits(Digits(A), Digits(B))

\* the product Q of two significands of 53 bits has 105 or 106 bits; its
\* upper 56 or 57 are rounded
MulRound(s, e, Q) ==
    RoundPack(s, e, Sticky((Q[3] \div 2097152) + Q[4] * 128,
                           (Q[2] \div 2097152) + (Q[3] % 2097152) * 128,
                           Q[1] # 0 \/ (Q[2] % 2097152) # 0))

\* x * y for finite nonzero x and y, given as Normal gives them
MulNormal(s, a, b) ==
    CHOOSE p \in {MulRound(s, a[1] + b[1], Q) :
                     Q \in {MulWide(<<a[2], a[3]>>, <<b[2], b[3]>>)}} : TRUE

\* x * y where x or y is NaN, an infinity or a zero
MulSpecial(x, y) ==
    CASE IsNaN(x) \/ IsNaN(y) -> NaN
      [] ~IsNaN(x) /\ ~IsNaN(y) /\ (IsInf(x) \/ IsInf(y)) ->
            IF IsZero(x) \/ IsZero(y) THEN NaN ELSE Infinity(SignOf(x, y))
      [] x[2] # 2047 /\ y[2] # 2047 -> SignedZero(SignOf(x, y))

\* x * y
Mul(x, y) ==
    CASE x[2] = 2047 \/ y[2] = 2047 \/ IsZero(x) \/ IsZero(y) -> MulSpecial(x, y)
      [] OTHER -> MulNormal(SignOf(x, y), Normal(x), Normal(y))

\* V * q for a digit q < 2^14, as <<low 28 bits, next 28 bits, the rest>>
TimesDigit(V, q) ==
    LET t0 == q * (V[2] % B14)
        t1 == q * (V[2] \div B14) + (t0 \div B14)
        t2 == q * (V[1] % B14) + (t1 \div B14)
        t3 == q * (V[1] \div B14) + (t2 \div B14)
    IN  <<(t1 % B14) * B14 + (t0 % B14), (t3 % B14) * B14 + (t2 % B14),
          t3 \div B14>>

\* R * 2^14 - T as <<whether it is negative, its lower 56 bits>>; T is given
\* as TimesDigit gives it
DivRest(R, T) ==
    LET dl == (R[2] % B14) * B14 - T[1]
        dh == (R[1] % B14) * B14 + (R[2] \div B14) - T[2] - (IF dl < 0 THEN 1 ELSE 0)
        dt == (R[1] \div B14) - T[3] - (IF dh < 0 THEN 1 ELSE 0)
    IN  <<dt < 0, <<(dh + B28) % B28, (dl + B28) % B28>>>>

\* One digit of a long division in base 2^14.  R is the remainder so far,
\* V the divisor, R < V, 2^55 <= V < 2^56; q is a trial digit not below
\* floor(R * 2^14 / V).  The result is <<digit, R'>> with
\* R * 2^14 = digit * V + R': the first of q, q - 1, ... that leaves a
\* remainder which is not negative.
RECURSIVE DivDigit(_, _, _)
DivDigit(R, V, q) ==
    CHOOSE d \in {IF rest[1] THEN DivDigit(R, V, q - 1) ELSE <<q, rest[2]>> :
                     rest \in {DivRest(R, TimesDigit(V, q))}} : TRUE

\* the trial digit for the remainder R: R / V from the upper digits of
\* both, at most one digit
DivGuess(R, V) ==
    IF R[1] \div (V[1] \div B14) >= B14 THEN B14 - 1 ELSE R[1] \div (V[1] \div B14)

\* S is <<the digits so far, the remainder they leave>>: the next digit is
\* put after them
DivNext(S, V) ==
    CHOOSE S1 \in {<<S[1] \o <<d[1]>>, d[2]>> :
                      d \in {DivDigit(S[2], V, DivGuess(S[2], V))}} : TRUE

\* the four digits of floor(R * 2^56 / V), the highest first, and the
\* remainder: one digit after the other
DivWide(R, V) ==
    CHOOSE S4 \in {DivNext(S3, V) : S3 \in
                 {DivNext(S2, V) : S2 \in
                     {DivNext(S1, V) : S1 \in {DivNext(<<<<>>, R>>, V)}}}} : TRUE

\* the quotient of the significands X and V (each with three bits below it)
\* is in (1/2, 2): 2^56 times it is 2^56 + Q if X >= V, and Q if not, Q
\* having the digits S[1]; a remainder makes the lowest bit sticky
DivRound(s, e, ge, S) ==
    RoundPack(s, e, Sticky((IF ge THEN B28 ELSE 0) + S[1][1] * B14 + S[1][2],
                           S[1][3] * B14 + S[1][4], S[2] # <<0, 0>>))

DivQuotient(s, e, X, V, ge) ==
    CHOOSE q \in {DivRound(s, e, ge, S) :
                     S \in {DivWide(IF ge THEN SubWide(X, V) ELSE X, V)}} : TRUE

\* x / y for finite nonzero x and y, given as Normal gives them
DivNormal(s, a, b) ==
    DivQuotient(s, a[1] - b[1] - 1, Times8(<<a[2], a[3]>>),
                Times8(<<b[2], b[3]>>),
                ~(a[2] < b[2] \/ (a[2] = b[2] /\ a[3] < b[3])))

\* x / y where x or y is NaN, an infinity or a zero
DivSpecial(x, y) ==
    CASE IsNaN(x) \/ IsNaN(y) -> NaN
      [] IsInf(x) /\ IsInf(y) -> NaN
      [] IsInf(x) /\ y[2] # 2047 -> Infinity(SignOf(x, y))
      [] x[2] # 2047 /\ IsInf(y) -> SignedZero(SignOf(x, y))
      [] x[2] # 2047 /\ y[2] # 2047 /\ IsZero(y) ->
            IF IsZero(x) THEN NaN ELSE Infinity(SignOf(x, y))
      [] x[2] # 2047 /\ y[2] # 2047 /\ ~IsZero(y) -> SignedZero(SignOf(x, y))

\* x / y
Div(x, y) ==
    CASE x[2] = 2047 \/ y[2] = 2047 \/ IsZero(x) \/ IsZero(y) -> DivSpecial(x, y)
      [] OTHER -> DivNormal(SignOf(x, y), Normal(x), Normal(y))

\* Math.abs(x)
Abs(x) == IF IsNaN(x) THEN NaN ELSE <<0, x[2], x[3], x[4]>>

\* x < y; every comparison with NaN is false
Less(x, y) ==
    /\ ~IsNaN(x)
    /\ ~IsNaN(y)
    /\ ~(IsZero(x) /\ IsZero(y))
    /\ IF x[1] # y[1] THEN x[1] = 1
       ELSE IF x[1] = 0 THEN MagLess(x, y) ELSE MagLess(y, x)

\* x > y
Greater(x, y) == Less(y, x)

\* x === y on numbers; NaN === NaN is false, 0 === -0 is true
StrictEq(x, y) ==
    /\ ~IsNaN(x)
    /\ ~IsNaN(y)
    /\ (x = y \/ (IsZero(x) /\ IsZero(y)))

\* the number k, an integer of magnitude below 2^31
Num(k) ==
    RoundPack(IF k < 0 THEN 1 ELSE 0, 55,
              <<(IF k < 0 THEN -k ELSE k) \div B28, (IF k < 0 THEN -k ELSE k) % B28>>)

\* the integer part of a finite x of magnitude below 2^31 (a cast to int)
IntOf(x) ==
    IF Expo(x) < 0 THEN 0
    ELSE (IF x[1] = 1 THEN -1 ELSE 1)
             * (IF Expo(x) <= 24 THEN x[3] \div 2^(24 - Expo(x))
                ELSE x[3] * 2^(Expo(x) - 24) + (x[4] \div 2^(52 - Expo(x))))

\* the upper 32 bits of the magnitude of x, x not NaN
HighWord(x) ==
    x[2] * 1048576 + ((IF x[2] = 0 \/ x[2] = 2047 THEN x[3] ELSE x[3] - 16777216) \div 16)

\* x with the lower 32 bits of its significand cleared
ClearLow(x) == <<x[1], x[2], (x[3] \div 16) * 16, 0>>

\* the positive normal number whose upper 32 bits are hw and whose lower 32
\* bits are zero
FromHigh(hw) == <<0, hw \div 1048576, 16777216 + (hw % 1048576) * 16, 0>>

Half == <<0, 1022, 16777216, 0>>

Two == <<0, 1024, 16777216, 0>>

\* 2^k for -1022 <= k <= 1023
TwoTo(k) == <<0, k + 1023, 16777216, 0>>

\* A library function is a list of instructions <<dest, op, x, y>>, one for
\* each operation of its statements: the variable dest becomes x op y, or x
\* itself if op is "=".  The values of subexpressions are kept in e1, e2, e3.
Apply(op, x, y) ==
    CASE op = "=" -> x
      [] op = "+" -> Add(x, y)
      [] op = "-" -> Sub(x, y)
      [] op = "*" -> Mul(x, y)
      [] op = "/" -> Div(x, y)

\* the instruction of a statement that is not executed: nothing changes
Skip(m) == <<"e1", "=", m.e1, Zero>>

\* the variables m after the instruction ins
Execute(m, ins) == [m EXCEPT ![ins[1]] = Apply(ins[2], ins[3], ins[4])]

\* a < b for numbers given as four parts of 28 bits, the lowest first
WideLess(a, b) ==
    \/ a[4] < b[4]
    \/ a[4] = b[4] /\ a[3] < b[3]
    \/ a[4] = b[4] /\ a[3] = b[3] /\ a[2] < b[2]
    \/ a[4] = b[4] /\ a[3] = b[3] /\ a[2] = b[2] /\ a[1] < b[1]

\* The significand Y of the square root: the Y with
\* (2Y - 1)^2 < T < (2Y + 1)^2, searched from a Y that is near it.
RECURSIVE SqrtAdjust(_, _)
SqrtAdjust(T, Y) ==
    CASE WideLess(MulWide(AddWide(AddWide(Y, Y), <<0, 1>>),
                          AddWide(AddWide(Y, Y), <<0, 1>>)), T) ->
            SqrtAdjust(T, AddWide(Y, <<0, 1>>))
      [] WideLess(T, MulWide(SubWide(AddWide(Y, Y), <<0, 1>>),
                             SubWide(AddWide(Y, Y), <<0, 1>>))) ->
            SqrtAdjust(T, SubWide(Y, <<0, 1>>))
      [] OTHER -> Y

\* the root of n, 2^14 <= n < 2^16, rounded down
SqrtSeed(n) == CHOOSE c \in 128..255 : c * c <= n /\ (c + 1) * (c + 1) > n

\* T = 4 * f * 2^104 for the significand f = <<a[2], a[3]>> * 2^-52, doubled
\* if odd: the square of twice the root's significand, as four parts of 28
\* bits, the lowest first
SqrtSquare(a, odd) ==
    IF odd = 1
    THEN <<0, (a[3] % 2) * 134217728, (a[2] % 2) * 134217728 + (a[3] \div 2),
           a[2] \div 2>>
    ELSE <<0, (a[3] % 4) * 67108864, (a[2] % 4) * 67108864 + (a[3] \div 4),
           a[2] \div 4>>

\* The instructions of the square root of x = f * 2^(2h), f in [1, 4): y
\* starts as the root of the upper 16 bits of f (n), takes three steps of
\* Newton's iteration and is then within a few units of the root, which
\* is searched next to it.
SqrtStep(k, m) ==
      \* y = the root of the upper 16 bits of f
    CASE k = 1 -> <<"y", "=", <<0, 1023, 131072 * SqrtSeed(m.n), 0>>, Zero>>
      \* y = Half * (y + f / y)
      [] k = 2 -> <<"e1", "/", m.f, m.y>>
      [] k = 3 -> <<"e1", "+", m.y, m.e1>>
      [] k = 4 -> <<"y", "*", Half, m.e1>>
      \* y = Half * (y + f / y)
      [] k = 5 -> <<"e1", "/", m.f, m.y>>
      [] k = 6 -> <<"e1", "+", m.y, m.e1>>
      [] k = 7 -> <<"y", "*", Half, m.e1>>
      \* y = Half * (y + f / y)
      [] k = 8 -> <<"e1", "/", m.f, m.y>>
      [] k = 9 -> <<"e1", "+", m.y, m.e1>>
      [] k = 10 -> <<"y", "*", Half, m.e1>>
      \* Y = the significand next to that of y with (2Y - 1)^2 < T < (2Y + 1)^2
      [] k = 11 ->
            <<"Y", "=",
              SqrtAdjust(m.T, IF m.y[2] = 1024 THEN <<33554431, B28 - 1>>
                                  ELSE <<m.y[3], m.y[4]>>), Zero>>

\* The instructions lo..hi of Math.sqrt, run one after the other on the values
\* m of its variables: the instructions after the middle one run on what the
\* ones up to it leave.
RECURSIVE RunSqrt(_, _, _)
RunSqrt(lo, hi, m) ==
    IF lo = hi
    THEN CHOOSE out \in {Execute(m, ins) : ins \in {SqrtStep(lo, m)}} : TRUE
    ELSE CHOOSE out \in
             {RunSqrt(((lo + hi) \div 2) + 1, hi, first) :
                  first \in {RunSqrt(lo, (lo + hi) \div 2, m)}} : TRUE

\* the square root of a finite x > 0, given as Normal gives it
SqrtNormal(a, odd) ==
    <<0, ((a[1] - odd) \div 2) + 1023>>
    \o RunSqrt(1, 11,
               [f |-> <<0, 1023 + odd, a[2], a[3]>>,
                n |-> IF odd = 1 THEN a[2] \div 512 ELSE a[2] \div 1024,
                T |-> SqrtSquare(a, odd), y |-> Zero, Y |-> <<0, 0>>,
                e1 |-> Zero, e2 |-> Zero]).Y

\* Math.sqrt(x): the double nearest to the square root
Sqrt(x) ==
    CASE IsNaN(x) -> NaN
      [] ~IsNaN(x) /\ IsZero(x) -> x
      [] ~IsNaN(x) /\ ~IsZero(x) /\ x[1] = 1 -> NaN
      [] IsInf(x) /\ x[1] = 0 -> x
      [] OTHER -> SqrtNormal(Normal(x), Normal(x)[1] % 2)

ln2_hi == <<0, 1022, 23258159, 249561088>>

ln2_lo == <<0, 990, 27500275, 91831414>>

Lg1 == <<0, 1022, 22369621, 89478547>>

Lg2 == <<0, 1021, 26843545, 160954884>>

Lg3 == <<0, 1021, 19173961, 69374809>>

Lg4 == <<0, 1020, 29826129, 227440815>>

Lg5 == <<0, 1020, 24405577, 113968094>>

Lg6 == <<0, 1020, 20553885, 7915167>>

Lg7 == <<0, 1020, 19861805, 255742532>>

\* the literal 0.33333333333333333
Third == <<0, 1021, 22369621, 89478485>>

\* The instructions of Math.log for x = 2^k * (1 + f); hx is the upper 20
\* bits of the fraction of x and dk is (double) k.
LogStep(k, m) ==
      \* |f| < 2^-20:
      \* if (f == zero) { if (k == 0) return zero; ... }
    CASE k = 1 ->
            IF IsZero(m.f) /\ m.k = 0
            THEN <<"ret", "=", Zero, Zero>>
            ELSE Skip(m)
      \* ... else return dk * ln2_hi + dk * ln2_lo
      [] k = 2 ->
            IF IsZero(m.f) /\ m.k # 0
            THEN <<"e1", "*", m.dk, ln2_hi>>
            ELSE Skip(m)
      [] k = 3 ->
            IF IsZero(m.f) /\ m.k # 0
            THEN <<"e2", "*", m.dk, ln2_lo>>
            ELSE Skip(m)
      [] k = 4 ->
            IF IsZero(m.f) /\ m.k # 0
            THEN <<"ret", "+", m.e1, m.e2>>
            ELSE Skip(m)
      \* R = f * f * (0.5 - 0.33333333333333333 * f)
      [] k = 5 ->
            IF ~IsZero(m.f)
            THEN <<"e1", "*", m.f, m.f>>
            ELSE Skip(m)
      [] k = 6 ->
            IF ~IsZero(m.f)
            THEN <<"e2", "*", Third, m.f>>
            ELSE Skip(m)
      [] k = 7 ->
            IF ~IsZero(m.f)
            THEN <<"e2", "-", Half, m.e2>>
            ELSE Skip(m)
      [] k = 8 ->
            IF ~IsZero(m.f)
            THEN <<"R", "*", m.e1, m.e2>>
            ELSE Skip(m)
      \* if (k == 0) return f - R
      [] k = 9 ->
            IF ~IsZero(m.f) /\ m.k = 0
            THEN <<"ret", "-", m.f, m.R>>
            ELSE Skip(m)
      \* else return dk * ln2_hi - ((R - dk * ln2_lo) - f)
      [] k = 10 ->
            IF ~IsZero(m.f) /\ m.k # 0
            THEN <<"e1", "*", m.dk, ln2_hi>>
            ELSE Skip(m)
      [] k = 11 ->
            IF ~IsZero(m.f) /\ m.k # 0
            THEN <<"e2", "*", m.dk, ln2_lo>>
            ELSE Skip(m)
      [] k = 12 ->
            IF ~IsZero(m.f) /\ m.k # 0
            THEN <<"e2", "-", m.R, m.e2>>
            ELSE Skip(m)
      [] k = 13 ->
            IF ~IsZero(m.f) /\ m.k # 0
            THEN <<"e2", "-", m.e2, m.f>>
            ELSE Skip(m)
      [] k = 14 ->
            IF ~IsZero(m.f) /\ m.k # 0
            THEN <<"ret", "-", m.e1, m.e2>>
            ELSE Skip(m)
      \* |f| >= 2^-20:
      \* s = f / (2.0 + f)
      [] k = 15 -> <<"e1", "+", Two, m.f>>
      [] k = 16 -> <<"s", "/", m.f, m.e1>>
      \* z = s * s
      [] k = 17 -> <<"z", "*", m.s, m.s>>
      \* w = z * z
      [] k = 18 -> <<"w", "*", m.z, m.z>>
      \* t1 = w * (Lg2 + w * (Lg4 + w * Lg6))
      [] k = 19 -> <<"e1", "*", m.w, Lg6>>
      [] k = 20 -> <<"e1", "+", Lg4, m.e1>>
      [] k = 21 -> <<"e1", "*", m.w, m.e1>>
      [] k = 22 -> <<"e1", "+", Lg2, m.e1>>
      [] k = 23 -> <<"t1", "*", m.w, m.e1>>
      \* t2 = z * (Lg1 + w * (Lg3 + w * (Lg5 + w * Lg7)))
      [] k = 24 -> <<"e1", "*", m.w, Lg7>>
      [] k = 25 -> <<"e1", "+", Lg5, m.e1>>
      [] k = 26 -> <<"e1", "*", m.w, m.e1>>
      [] k = 27 -> <<"e1", "+", Lg3, m.e1>>
      [] k = 28 -> <<"e1", "*", m.w, m.e1>>
      [] k = 29 -> <<"e1", "+", Lg1, m.e1>>
      [] k = 30 -> <<"t2", "*", m.z, m.e1>>
      \* R = t2 + t1
      [] k = 31 -> <<"R", "+", m.t2, m.t1>>
      \* i = (hx - 0x6147a) | (0x6b851 - hx), positive for hx in 0x6147a..0x6b851
      [] k = 32 ->
            <<"i", "=",
              IF m.hx >= 398458 /\ m.hx <= 440401 THEN 1 ELSE 0, Zero>>
      \* if (i > 0) { hfsq = 0.5 * f * f;
      [] k = 33 ->
            IF m.i > 0
            THEN <<"e1", "*", Half, m.f>>
            ELSE Skip(m)
      [] k = 34 ->
            IF m.i > 0
            THEN <<"hfsq", "*", m.e1, m.f>>
            ELSE Skip(m)
      \*   if (k == 0) return f - (hfsq - s * (hfsq + R));
      [] k = 35 ->
            IF m.i > 0 /\ m.k = 0
            THEN <<"e1", "+", m.hfsq, m.R>>
            ELSE Skip(m)
      [] k = 36 ->
            IF m.i > 0 /\ m.k = 0
            THEN <<"e1", "*", m.s, m.e1>>
            ELSE Skip(m)
      [] k = 37 ->
            IF m.i > 0 /\ m.k = 0
            THEN <<"e1", "-", m.hfsq, m.e1>>
            ELSE Skip(m)
      [] k = 38 ->
            IF m.i > 0 /\ m.k = 0
            THEN <<"ret", "-", m.f, m.e1>>
            ELSE Skip(m)
      \*   else return dk * ln2_hi - ((hfsq - (s * (hfsq + R) + dk * ln2_lo)) - f); }
      [] k = 39 ->
            IF m.i > 0 /\ m.k # 0
            THEN <<"e1", "*", m.dk, ln2_hi>>
            ELSE Skip(m)
      [] k = 40 ->
            IF m.i > 0 /\ m.k # 0
            THEN <<"e2", "+", m.hfsq, m.R>>
            ELSE Skip(m)
      [] k = 41 ->
            IF m.i > 0 /\ m.k # 0
            THEN <<"e2", "*", m.s, m.e2>>
            ELSE Skip(m)
      [] k = 42 ->
            IF m.i > 0 /\ m.k # 0
            THEN <<"e3", "*", m.dk, ln2_lo>>
            ELSE Skip(m)
      [] k = 43 ->
            IF m.i > 0 /\ m.k # 0
            THEN <<"e2", "+", m.e2, m.e3>>
            ELSE Skip(m)
      [] k = 44 ->
            IF m.i > 0 /\ m.k # 0
            THEN <<"e2", "-", m.hfsq, m.e2>>
            ELSE Skip(m)
      [] k = 45 ->
            IF m.i > 0 /\ m.k # 0
            THEN <<"e2", "-", m.e2, m.f>>
            ELSE Skip(m)
      [] k = 46 ->
            IF m.i > 0 /\ m.k # 0
            THEN <<"ret", "-", m.e1, m.e2>>
            ELSE Skip(m)
      \* else { if (k == 0) return f - s * (f - R);
      [] k = 47 ->
            IF m.i = 0 /\ m.k = 0
            THEN <<"e1", "-", m.f, m.R>>
            ELSE Skip(m)
      [] k = 48 ->
            IF m.i = 0 /\ m.k = 0
            THEN <<"e1", "*", m.s, m.e1>>
            ELSE Skip(m)
      [] k = 49 ->
            IF m.i = 0 /\ m.k = 0
            THEN <<"ret", "-", m.f, m.e1>>
            ELSE Skip(m)
      \*   else return dk * ln2_hi - ((s * (f - R) - dk * ln2_lo) - f); }
      [] k = 50 ->
            IF m.i = 0 /\ m.k # 0
            THEN <<"e1", "*", m.dk, ln2_hi>>
            ELSE Skip(m)
      [] k = 51 ->
            IF m.i = 0 /\ m.k # 0
            THEN <<"e2", "-", m.f, m.R>>
            ELSE Skip(m)
      [] k = 52 ->
            IF m.i = 0 /\ m.k # 0
            THEN <<"e2", "*", m.s, m.e2>>
            ELSE Skip(m)
      [] k = 53 ->
            IF m.i = 0 /\ m.k # 0
            THEN <<"e3", "*", m.dk, ln2_lo>>
            ELSE Skip(m)
      [] k = 54 ->
            IF m.i = 0 /\ m.k # 0
            THEN <<"e2", "-", m.e2, m.e3>>
            ELSE Skip(m)
      [] k = 55 ->
            IF m.i = 0 /\ m.k # 0
            THEN <<"e2", "-", m.e2, m.f>>
            ELSE Skip(m)
      [] k = 56 ->
            IF m.i = 0 /\ m.k # 0
            THEN <<"ret", "-", m.e1, m.e2>>
            ELSE Skip(m)

\* The instructions lo..hi of Math.log, run one after the other on the values
\* m of its variables: the instructions after the middle one run on what the
\* ones up to it leave.
RECURSIVE RunLog(_, _, _)
RunLog(lo, hi, m) ==
    IF lo = hi
    THEN CHOOSE out \in {Execute(m, ins) : ins \in {LogStep(lo, m)}} : TRUE
    ELSE CHOOSE out \in
             {RunLog(((lo + hi) \div 2) + 1, hi, first) :
                  first \in {RunLog(lo, (lo + hi) \div 2, m)}} : TRUE

\* x = 2^k * (1 + f): (0x000fffff & (2 + hx)) < 3 holds for the hx 0xffffe,
\* 0xfffff and 0, where |f| < 2^-20
LogReduced(hx, k, f) ==
    RunLog(IF hx >= 1048574 \/ hx = 0 THEN 1 ELSE 15,
           IF hx >= 1048574 \/ hx = 0 THEN 14 ELSE 56,
           [hx |-> hx, k |-> k, f |-> f, dk |-> Num(k), i |-> 0,
            s |-> Zero, z |-> Zero, w |-> Zero, t1 |-> Zero, t2 |-> Zero,
            R |-> Zero, hfsq |-> Zero, ret |-> Zero, e1 |-> Zero,
            e2 |-> Zero, e3 |-> Zero]).ret

\* hx is the upper 20 bits of the fraction of x; i is 1 if x is scaled into
\* [sqrt(2) / 2, 1), with k one more, and 0 if into [1, sqrt(2))
LogScaled(a, hx, i) ==
    LogReduced(hx, a[1] + i, Sub(<<0, 1023 - i, a[2], a[3]>>, One))

\* the logarithm of a finite x > 0, given as Normal gives it
LogNormal(a) ==
    LogScaled(a, (a[2] - 16777216) \div 16,
              IF ((a[2] - 16777216) \div 16) + 614244 >= 1048576 THEN 1 ELSE 0)

\* Math.log(x)
Log(x) ==
    CASE IsNaN(x) -> NaN
      [] ~IsNaN(x) /\ IsZero(x) -> Infinity(1)
      [] ~IsNaN(x) /\ ~IsZero(x) /\ x[1] = 1 -> NaN
      [] IsInf(x) /\ x[1] = 0 -> x
      [] OTHER -> LogNormal(Normal(x))

o_threshold == <<0, 1032, 23258159, 251279855>>

u_threshold == <<1, 1032, 24416525, 86847569>>

invln2 == <<0, 1023, 24204406, 86737662>>

P1 == <<0, 1020, 22369621, 89478462>>

P2 == <<1, 1014, 23860929, 113163667>>

P3 == <<0, 1009, 18179754, 254139948>>

P4 == <<1, 1003, 29086748, 97676273>>

P5 == <<0, 998, 23295639, 46048464>>

\* the constant E returned for the argument 1
E == <<0, 1024, 22802600, 185882473>>

twom1000 == <<0, 23, 16777216, 0>>

\* The instructions of Math.exp for a finite x that neither overflows nor
\* underflows, |x| >= 2^-28; hx is the upper 32 bits of |x|, xsb the sign
\* of x, and halF, ln2HI, ln2LO stand for halF[xsb], ln2HI[xsb], ln2LO[xsb].
ExpStep(k, m) ==
      \* if (hx > 0x3fd62e42) {   |x| > 0.5 ln2
      \*   if (hx < 0x3ff0a2b2) {   |x| < 1.5 ln2
      \*     hi = x - ln2HI[xsb]
    CASE k = 1 ->
            IF m.hx > 1071001154 /\ m.hx < 1072734898
            THEN <<"hi", "-", m.x, m.ln2HI>>
            ELSE Skip(m)
      \*     lo = ln2LO[xsb]
      [] k = 2 ->
            IF m.hx > 1071001154 /\ m.hx < 1072734898
            THEN <<"lo", "=", m.ln2LO, Zero>>
            ELSE Skip(m)
      \*     k = 1 - xsb - xsb
      [] k = 3 ->
            IF m.hx > 1071001154 /\ m.hx < 1072734898
            THEN <<"k", "=", 1 - m.xsb - m.xsb, Zero>>
            ELSE Skip(m)
      \*   } else { k = (int) (invln2 * x + halF[xsb]);
      [] k = 4 ->
            IF m.hx >= 1072734898
            THEN <<"e1", "*", invln2, m.x>>
            ELSE Skip(m)
      [] k = 5 ->
            IF m.hx >= 1072734898
            THEN <<"t", "+", m.e1, m.halF>>
            ELSE Skip(m)
      [] k = 6 ->
            IF m.hx >= 1072734898
            THEN <<"k", "=", IntOf(m.t), Zero>>
            ELSE Skip(m)
      \*     t = k
      [] k = 7 ->
            IF m.hx >= 1072734898
            THEN <<"t", "=", Num(m.k), Zero>>
            ELSE Skip(m)
      \*     hi = x - t * ln2HI[0]
      [] k = 8 ->
            IF m.hx >= 1072734898
            THEN <<"e1", "*", m.t, ln2_hi>>
            ELSE Skip(m)
      [] k = 9 ->
            IF m.hx >= 1072734898
            THEN <<"hi", "-", m.x, m.e1>>
            ELSE Skip(m)
      \*     lo = t * ln2LO[0] }
      [] k = 10 ->
            IF m.hx >= 1072734898
            THEN <<"lo", "*", m.t, ln2_lo>>
            ELSE Skip(m)
      \*   x = hi - lo }
      [] k = 11 ->
            IF m.hx > 1071001154
            THEN <<"x", "-", m.hi, m.lo>>
            ELSE Skip(m)
      \* t = x * x
      [] k = 12 -> <<"t", "*", m.x, m.x>>
      \* twopk = 2^k if k >= -1021, else 2^(k + 1000)
      [] k = 13 ->
            <<"twopk", "=",
              TwoTo(IF m.k >= -1021 THEN m.k ELSE m.k + 1000), Zero>>
      \* c = x - t * (P1 + t * (P2 + t * (P3 + t * (P4 + t * P5))))
      [] k = 14 -> <<"e1", "*", m.t, P5>>
      [] k = 15 -> <<"e1", "+", P4, m.e1>>
      [] k = 16 -> <<"e1", "*", m.t, m.e1>>
      [] k = 17 -> <<"e1", "+", P3, m.e1>>
      [] k = 18 -> <<"e1", "*", m.t, m.e1>>
      [] k = 19 -> <<"e1", "+", P2, m.e1>>
      [] k = 20 -> <<"e1", "*", m.t, m.e1>>
      [] k = 21 -> <<"e1", "+", P1, m.e1>>
      [] k = 22 -> <<"e1", "*", m.t, m.e1>>
      [] k = 23 -> <<"c", "-", m.x, m.e1>>
      \* if (k == 0) return one - ((x * c) / (c - 2.0) - x)
      [] k = 24 ->
            IF m.k = 0
            THEN <<"e1", "*", m.x, m.c>>
            ELSE Skip(m)
      [] k = 25 ->
            IF m.k = 0
            THEN <<"e2", "-", m.c, Two>>
            ELSE Skip(m)
      [] k = 26 ->
            IF m.k = 0
            THEN <<"e1", "/", m.e1, m.e2>>
            ELSE Skip(m)
      [] k = 27 ->
            IF m.k = 0
            THEN <<"e1", "-", m.e1, m.x>>
            ELSE Skip(m)
      [] k = 28 ->
            IF m.k = 0
            THEN <<"ret", "-", One, m.e1>>
            ELSE Skip(m)
      \* else y = one - ((lo - (x * c) / (2.0 - c)) - hi)
      [] k = 29 ->
            IF m.k # 0
            THEN <<"e1", "*", m.x, m.c>>
            ELSE Skip(m)
      [] k = 30 ->
            IF m.k # 0
            THEN <<"e2", "-", Two, m.c>>
            ELSE Skip(m)
      [] k = 31 ->
            IF m.k # 0
            THEN <<"e1", "/", m.e1, m.e2>>
            ELSE Skip(m)
      [] k = 32 ->
            IF m.k # 0
            THEN <<"e1", "-", m.lo, m.e1>>
            ELSE Skip(m)
      [] k = 33 ->
            IF m.k # 0
            THEN <<"e1", "-", m.e1, m.hi>>
            ELSE Skip(m)
      [] k = 34 ->
            IF m.k # 0
            THEN <<"y", "-", One, m.e1>>
            ELSE Skip(m)
      \* if (k >= -1021) { if (k == 1024) return y * 2.0 * 0x1p1023; return y * twopk }
      [] k = 35 ->
            IF m.k # 0 /\ m.k >= -1021 /\ m.k # 1024
            THEN <<"ret", "*", m.y, m.twopk>>
            ELSE Skip(m)
      \* ret = y * Two * TwoTo(1023)   [if k = 1024]
      [] k = 36 ->
            IF m.k = 1024
            THEN <<"e1", "*", m.y, Two>>
            ELSE Skip(m)
      [] k = 37 ->
            IF m.k = 1024
            THEN <<"ret", "*", m.e1, TwoTo(1023)>>
            ELSE Skip(m)
      \* else return y * twopk * twom1000
      [] k = 38 ->
            IF m.k < -1021
            THEN <<"e1", "*", m.y, m.twopk>>
            ELSE Skip(m)
      [] k = 39 ->
            IF m.k < -1021
            THEN <<"ret", "*", m.e1, twom1000>>
            ELSE Skip(m)

\* The instructions lo..hi of Math.exp, run one after the other on the values
\* m of its variables: the instructions after the middle one run on what the
\* ones up to it leave.
RECURSIVE RunExp(_, _, _)
RunExp(lo, hi, m) ==
    IF lo = hi
    THEN CHOOSE out \in {Execute(m, ins) : ins \in {ExpStep(lo, m)}} : TRUE
    ELSE CHOOSE out \in
             {RunExp(((lo + hi) \div 2) + 1, hi, first) :
                  first \in {RunExp(lo, (lo + hi) \div 2, m)}} : TRUE

\* hx is the upper 32 bits of |x|; |x| < 2^-28 gives 1 + x, and 1 gives E
ExpFinite(x, hx) ==
    CASE hx < 1043333120 -> Add(One, x)
      [] x = One -> E
      [] OTHER ->
            RunExp(1, 39,
                   [x |-> x, hx |-> hx, xsb |-> x[1],
                    halF |-> IF x[1] = 1 THEN Neg(Half) ELSE Half,
                    ln2HI |-> IF x[1] = 1 THEN Neg(ln2_hi) ELSE ln2_hi,
                    ln2LO |-> IF x[1] = 1 THEN Neg(ln2_lo) ELSE ln2_lo, k |-> 0,
                    t |-> Zero, hi |-> Zero, lo |-> Zero, c |-> Zero, y |-> Zero,
                    twopk |-> Zero, ret |-> Zero, e1 |-> Zero, e2 |-> Zero,
                    e3 |-> Zero]).ret

\* Math.exp(x)
Exp(x) ==
    CASE IsNaN(x) -> NaN
      [] IsInf(x) -> IF x[1] = 1 THEN Zero ELSE x
      [] x[2] # 2047 /\ Greater(x, o_threshold) -> Infinity(0)
      [] x[2] # 2047 /\ Less(x, u_threshold) -> Zero
      [] OTHER -> ExpFinite(x, HighWord(x))

Three == <<0, 1024, 25165824, 0>>

OnePointFive == <<0, 1023, 25165824, 0>>

L1 == <<0, 1022, 20132659, 53687043>>

L2 == <<0, 1021, 28760941, 191867903>>

L3 == <<0, 1021, 22369621, 26158669>>

L4 == <<0, 1021, 18302474, 152912129>>

L5 == <<0, 1020, 30958761, 63560549>>

L6 == <<0, 1020, 27779716, 172314351>>

dp_h == <<0, 1022, 19628084, 0>>

dp_l == <<0, 996, 30400180, 63950854>>

lg2 == <<0, 1022, 23258159, 251279855>>

lg2_h == <<0, 1022, 23258160, 0>>

lg2_l == <<1, 994, 17155600, 212364345>>

cp == <<0, 1022, 32272541, 205128701>>

cp_h == <<0, 1022, 32272542, 0>>

cp_l == <<1, 995, 31653377, 73073141>>

\* 8.0085662595372944372e-17
ovt == <<0, 969, 24204406, 86737662>>

\* x with its exponent raised by n, rounded once
Scalbn(x, n) == RoundPack(x[1], Expo(x) + n, Times8(<<x[3], x[4]>>))

\* The instructions of Math.pow for a finite |x| not 0 or 1 and a finite y,
\* |y| < 2^31.  ax is |x| scaled into [1, sqrt(3)), or into [sqrt(3) / 2, 1),
\* ix its upper word, n the exponent taken out, and bp = 1 or 1.5 (k = 0 or
\* 1) the point near ax; dp_hk and dp_lk stand for dp_h[k] and dp_l[k].  The
\* first part gives z = p_l + p_h = y * log2(|x|), the second 2^z.
PowStep(k, m) ==
      \* u = ax - bp[k]
    CASE k = 1 -> <<"u", "-", m.ax, m.bp>>
      \* v = one / (ax + bp[k])
      [] k = 2 -> <<"e1", "+", m.ax, m.bp>>
      [] k = 3 -> <<"v", "/", One, m.e1>>
      \* ss = u * v
      [] k = 4 -> <<"ss", "*", m.u, m.v>>
      \* s_h = ss; SET_LOW_WORD(s_h, 0)
      [] k = 5 -> <<"s_h", "=", ClearLow(m.ss), Zero>>
      \* t_h = zero; SET_HIGH_WORD(t_h, ((ix >> 1) | 0x20000000) + 0x00080000 + (k << 18))
      [] k = 6 ->
            <<"t_h", "=",
              FromHigh((m.ix \div 2) + 536870912 + 524288 + m.k * 262144), Zero>>
      \* t_l = ax - (t_h - bp[k])
      [] k = 7 -> <<"e1", "-", m.t_h, m.bp>>
      [] k = 8 -> <<"t_l", "-", m.ax, m.e1>>
      \* s_l = v * ((u - s_h * t_h) - s_h * t_l)
      [] k = 9 -> <<"e1", "*", m.s_h, m.t_h>>
      [] k = 10 -> <<"e1", "-", m.u, m.e1>>
      [] k = 11 -> <<"e2", "*", m.s_h, m.t_l>>
      [] k = 12 -> <<"e1", "-", m.e1, m.e2>>
      [] k = 13 -> <<"s_l", "*", m.v, m.e1>>
      \* s2 = ss * ss
      [] k = 14 -> <<"s2", "*", m.ss, m.ss>>
      \* r = s2 * s2 * (L1 + s2 * (L2 + s2 * (L3 + s2 * (L4 + s2 * (L5 + s2 * L6)))))
      [] k = 15 -> <<"e1", "*", m.s2, m.s2>>
      [] k = 16 -> <<"e2", "*", m.s2, L6>>
      [] k = 17 -> <<"e2", "+", L5, m.e2>>
      [] k = 18 -> <<"e2", "*", m.s2, m.e2>>
      [] k = 19 -> <<"e2", "+", L4, m.e2>>
      [] k = 20 -> <<"e2", "*", m.s2, m.e2>>
      [] k = 21 -> <<"e2", "+", L3, m.e2>>
      [] k = 22 -> <<"e2", "*", m.s2, m.e2>>
      [] k = 23 -> <<"e2", "+", L2, m.e2>>
      [] k = 24 -> <<"e2", "*", m.s2, m.e2>>
      [] k = 25 -> <<"e2", "+", L1, m.e2>>
      [] k = 26 -> <<"r", "*", m.e1, m.e2>>
      \* r += s_l * (s_h + ss)
      [] k = 27 -> <<"e1", "+", m.s_h, m.ss>>
      [] k = 28 -> <<"e1", "*", m.s_l, m.e1>>
      [] k = 29 -> <<"r", "+", m.r, m.e1>>
      \* s2 = s_h * s_h
      [] k = 30 -> <<"s2", "*", m.s_h, m.s_h>>
      \* t_h = 3.0 + s2 + r; SET_LOW_WORD(t_h, 0)
      [] k = 31 -> <<"e1", "+", Three, m.s2>>
      [] k = 32 -> <<"e1", "+", m.e1, m.r>>
      [] k = 33 -> <<"t_h", "=", ClearLow(m.e1), Zero>>
      \* t_l = r - ((t_h - 3.0) - s2)
      [] k = 34 -> <<"e1", "-", m.t_h, Three>>
      [] k = 35 -> <<"e1", "-", m.e1, m.s2>>
      [] k = 36 -> <<"t_l", "-", m.r, m.e1>>
      \* u = s_h * t_h
      [] k = 37 -> <<"u", "*", m.s_h, m.t_h>>
      \* v = s_l * t_h + t_l * ss
      [] k = 38 -> <<"e1", "*", m.s_l, m.t_h>>
      [] k = 39 -> <<"e2", "*", m.t_l, m.ss>>
      [] k = 40 -> <<"v", "+", m.e1, m.e2>>
      \* p_h = u + v; SET_LOW_WORD(p_h, 0)
      [] k = 41 -> <<"e1", "+", m.u, m.v>>
      [] k = 42 -> <<"p_h", "=", ClearLow(m.e1), Zero>>
      \* p_l = v - (p_h - u)
      [] k = 43 -> <<"e1", "-", m.p_h, m.u>>
      [] k = 44 -> <<"p_l", "-", m.v, m.e1>>
      \* z_h = cp_h * p_h
      [] k = 45 -> <<"z_h", "*", cp_h, m.p_h>>
      \* z_l = cp_l * p_h + p_l * cp + dp_l[k]
      [] k = 46 -> <<"e1", "*", cp_l, m.p_h>>
      [] k = 47 -> <<"e2", "*", m.p_l, cp>>
      [] k = 48 -> <<"e1", "+", m.e1, m.e2>>
      [] k = 49 -> <<"z_l", "+", m.e1, m.dp_lk>>
      \* t = (double) n
      [] k = 50 -> <<"t", "=", Num(m.n), Zero>>
      \* t1 = (((z_h + z_l) + dp_h[k]) + t); SET_LOW_WORD(t1, 0)
      [] k = 51 -> <<"e1", "+", m.z_h, m.z_l>>
      [] k = 52 -> <<"e1", "+", m.e1, m.dp_hk>>
      [] k = 53 -> <<"e1", "+", m.e1, m.t>>
      [] k = 54 -> <<"t1", "=", ClearLow(m.e1), Zero>>
      \* t2 = z_l - (((t1 - t) - dp_h[k]) - z_h)
      [] k = 55 -> <<"e1", "-", m.t1, m.t>>
      [] k = 56 -> <<"e1", "-", m.e1, m.dp_hk>>
      [] k = 57 -> <<"e1", "-", m.e1, m.z_h>>
      [] k = 58 -> <<"t2", "-", m.z_l, m.e1>>
      \* y1 = y; SET_LOW_WORD(y1, 0)
      [] k = 59 -> <<"y1", "=", ClearLow(m.y), Zero>>
      \* p_l = (y - y1) * t1 + y * t2
      [] k = 60 -> <<"e1", "-", m.y, m.y1>>
      [] k = 61 -> <<"e1", "*", m.e1, m.t1>>
      [] k = 62 -> <<"e2", "*", m.y, m.t2>>
      [] k = 63 -> <<"p_l", "+", m.e1, m.e2>>
      \* p_h = y1 * t1
      [] k = 64 -> <<"p_h", "*", m.y1, m.t1>>
      \* z = p_l + p_h
      [] k = 65 -> <<"z", "+", m.p_l, m.p_h>>
      \* j = the upper word of |z|; z >= 1024 (j >= 0x40900000) overflows if it is
      \* above 1024 or p_l + ovt > z - p_h; z <= -1075 (j >= 0x4090cc00) underflows
      \* if it is below -1075 or p_l <= z - p_h
      [] k = 66 -> <<"j", "=", HighWord(m.z), Zero>>
      \* e1 = p_l + ovt
      [] k = 67 -> <<"e1", "+", m.p_l, ovt>>
      \* e2 = z - p_h
      [] k = 68 -> <<"e2", "-", m.z, m.p_h>>
      [] k = 69 ->
            <<"over", "=",
              CASE /\ m.z[1] = 0
                    /\ m.j >= 1083179008
                    /\ \/ m.j > 1083179008
                       \/ m.z[4] # 0
                       \/ m.z[3] % 16 # 0
                       \/ Greater(m.e1, m.e2) -> 1
                 [] /\ m.z[1] = 1
                    /\ m.j >= 1083231232
                    /\ \/ m.j > 1083231232
                       \/ m.z[4] # 0
                       \/ m.z[3] % 16 # 0
                       \/ ~Greater(m.p_l, m.e2) -> 2
                 [] OTHER -> 0, Zero>>
      \* n = 0
      [] k = 70 -> <<"n", "=", 0, Zero>>
      \* if (|z| > 0.5) {   n = [z + 0.5]
      \*   n = j + (0x00100000 >> (k + 1)), k being the exponent of z
      [] k = 71 ->
            IF m.over = 0 /\ m.j > 1071644672
            THEN <<"n", "=",
                   m.j + (1048576 \div 2^((m.j \div 1048576) - 1022)), Zero>>
            ELSE Skip(m)
      \*   k = the exponent of n
      [] k = 72 ->
            IF m.over = 0 /\ m.j > 1071644672
            THEN <<"k", "=", (m.n \div 1048576) - 1023, Zero>>
            ELSE Skip(m)
      \*   t = zero; SET_HIGH_WORD(t, n & ~(0x000fffff >> k))
      [] k = 73 ->
            IF m.over = 0 /\ m.j > 1071644672
            THEN <<"t", "=",
                   <<m.z[1], m.n \div 1048576,
                   16777216 + (((m.n % 1048576) \div 2^(20 - m.k)) * 2^(20 - m.k)) * 16, 0>>, Zero>>
            ELSE Skip(m)
      \*   n = ((n & 0x000fffff) | 0x00100000) >> (20 - k); if (j < 0) n = -n
      [] k = 74 ->
            IF m.over = 0 /\ m.j > 1071644672
            THEN <<"n", "=",
                   (IF m.z[1] = 1 THEN -1 ELSE 1)
                   * (((m.n % 1048576) + 1048576) \div 2^(20 - m.k)), Zero>>
            ELSE Skip(m)
      \*   p_h -= t }
      [] k = 75 ->
            IF m.over = 0 /\ m.j > 1071644672
            THEN <<"p_h", "-", m.p_h, m.t>>
            ELSE Skip(m)
      \* t = p_l + p_h; SET_LOW_WORD(t, 0)
      [] k = 76 ->
            IF m.over = 0
            THEN <<"e1", "+", m.p_l, m.p_h>>
            ELSE Skip(m)
      [] k = 77 ->
            IF m.over = 0
            THEN <<"t", "=", ClearLow(m.e1), Zero>>
            ELSE Skip(m)
      \* u = t * lg2_h
      [] k = 78 ->
            IF m.over = 0
            THEN <<"u", "*", m.t, lg2_h>>
            ELSE Skip(m)
      \* v = (p_l - (t - p_h)) * lg2 + t * lg2_l
      [] k = 79 ->
            IF m.over = 0
            THEN <<"e1", "-", m.t, m.p_h>>
            ELSE Skip(m)
      [] k = 80 ->
            IF m.over = 0
            THEN <<"e1", "-", m.p_l, m.e1>>
            ELSE Skip(m)
      [] k = 81 ->
            IF m.over = 0
            THEN <<"e1", "*", m.e1, lg2>>
            ELSE Skip(m)
      [] k = 82 ->
            IF m.over = 0
            THEN <<"e2", "*", m.t, lg2_l>>
            ELSE Skip(m)
      [] k = 83 ->
            IF m.over = 0
            THEN <<"v", "+", m.e1, m.e2>>
            ELSE Skip(m)
      \* z = u + v
      [] k = 84 ->
            IF m.over = 0
            THEN <<"z", "+", m.u, m.v>>
            ELSE Skip(m)
      \* w = v - (z - u)
      [] k = 85 ->
            IF m.over = 0
            THEN <<"e1", "-", m.z, m.u>>
            ELSE Skip(m)
      [] k = 86 ->
            IF m.over = 0
            THEN <<"w", "-", m.v, m.e1>>
            ELSE Skip(m)
      \* t = z * z
      [] k = 87 ->
            IF m.over = 0
            THEN <<"t", "*", m.z, m.z>>
            ELSE Skip(m)
      \* t1 = z - t * (P1 + t * (P2 + t * (P3 + t * (P4 + t * P5))))
      [] k = 88 ->
            IF m.over = 0
            THEN <<"e1", "*", m.t, P5>>
            ELSE Skip(m)
      [] k = 89 ->
            IF m.over = 0
            THEN <<"e1", "+", P4, m.e1>>
            ELSE Skip(m)
      [] k = 90 ->
            IF m.over = 0
            THEN <<"e1", "*", m.t, m.e1>>
            ELSE Skip(m)
      [] k = 91 ->
            IF m.over = 0
            THEN <<"e1", "+", P3, m.e1>>
            ELSE Skip(m)
      [] k = 92 ->
            IF m.over = 0
            THEN <<"e1", "*", m.t, m.e1>>
            ELSE Skip(m)
      [] k = 93 ->
            IF m.over = 0
            THEN <<"e1", "+", P2, m.e1>>
            ELSE Skip(m)
      [] k = 94 ->
            IF m.over = 0
            THEN <<"e1", "*", m.t, m.e1>>
            ELSE Skip(m)
      [] k = 95 ->
            IF m.over = 0
            THEN <<"e1", "+", P1, m.e1>>
            ELSE Skip(m)
      [] k = 96 ->
            IF m.over = 0
            THEN <<"e1", "*", m.t, m.e1>>
            ELSE Skip(m)
      [] k = 97 ->
            IF m.over = 0
            THEN <<"t1", "-", m.z, m.e1>>
            ELSE Skip(m)
      \* r = (z * t1) / ((t1 - two) - (w + z * w))
      [] k = 98 ->
            IF m.over = 0
            THEN <<"e1", "*", m.z, m.t1>>
            ELSE Skip(m)
      [] k = 99 ->
            IF m.over = 0
            THEN <<"e2", "-", m.t1, Two>>
            ELSE Skip(m)
      [] k = 100 ->
            IF m.over = 0
            THEN <<"e3", "*", m.z, m.w>>
            ELSE Skip(m)
      [] k = 101 ->
            IF m.over = 0
            THEN <<"e3", "+", m.w, m.e3>>
            ELSE Skip(m)
      [] k = 102 ->
            IF m.over = 0
            THEN <<"e2", "-", m.e2, m.e3>>
            ELSE Skip(m)
      [] k = 103 ->
            IF m.over = 0
            THEN <<"r", "/", m.e1, m.e2>>
            ELSE Skip(m)
      \* z = one - (r - z)
      [] k = 104 ->
            IF m.over = 0
            THEN <<"e1", "-", m.r, m.z>>
            ELSE Skip(m)
      [] k = 105 ->
            IF m.over = 0
            THEN <<"z", "-", One, m.e1>>
            ELSE Skip(m)
      \* z with n added to its exponent; huge * huge or tiny * tiny at an overflow or
      \* underflow
      [] k = 106 ->
            <<"ret", "=",
              CASE m.over = 1 -> Infinity(0)
                 [] m.over = 2 -> Zero
                 [] OTHER -> Scalbn(m.z, m.n), Zero>>

\* The instructions lo..hi of **, run one after the other on the values
\* m of its variables: the instructions after the middle one run on what the
\* ones up to it leave.
RECURSIVE RunPow(_, _, _)
RunPow(lo, hi, m) ==
    IF lo = hi
    THEN CHOOSE out \in {Execute(m, ins) : ins \in {PowStep(lo, m)}} : TRUE
    ELSE CHOOSE out \in
             {RunPow(((lo + hi) \div 2) + 1, hi, first) :
                  first \in {RunPow(lo, (lo + hi) \div 2, m)}} : TRUE

\* a is |x| as Normal gives it and j the upper 20 bits of its fraction: a
\* fraction below sqrt(3/2) has k = 0, one below sqrt(3) has k = 1, and a
\* larger one has k = 0 and a halved (`up': n += 1, ix -= 0x00100000)
PowRange(a, j, k, up, y) ==
    RunPow(1, 106,
           [ax |-> <<0, 1023 - up, a[2], a[3]>>, y |-> y,
            n |-> a[1] + up, k |-> k, ix |-> (1023 - up) * 1048576 + j,
            j |-> j, bp |-> IF k = 1 THEN OnePointFive ELSE One,
            dp_hk |-> IF k = 1 THEN dp_h ELSE Zero,
            dp_lk |-> IF k = 1 THEN dp_l ELSE Zero, u |-> Zero,
            v |-> Zero, ss |-> Zero, s_h |-> Zero, s_l |-> Zero,
            t_h |-> Zero, t_l |-> Zero, s2 |-> Zero, r |-> Zero,
            p_h |-> Zero, p_l |-> Zero, z_h |-> Zero, z_l |-> Zero,
            t |-> Zero, t1 |-> Zero, t2 |-> Zero, y1 |-> Zero,
            z |-> Zero, w |-> Zero, over |-> 0, ret |-> Zero,
            e1 |-> Zero, e2 |-> Zero, e3 |-> Zero]).ret

PowNormal(a, j, y) ==
    PowRange(a, j, IF j > 235662 /\ j < 767610 THEN 1 ELSE 0,
             IF j >= 767610 THEN 1 ELSE 0, y)

\* |x| ** y for y = k
PowPositive(ax, y) == PowNormal(Normal(ax), (Normal(ax)[2] - 16777216) \div 16, y)

\* x ** 2: Math.pow returns x * x for the exponent 2
Square(x) == Mul(x, x)

\* (-|x|) ** k is -(|x| ** k) for an odd k
PowSigned(x, k, res) == IF x[1] = 1 /\ k % 2 = 1 THEN Neg(res) ELSE res

\* x ** k for a literal integer exponent k >= 1 (Math.pow)
Pow(x, k) ==
    CASE IsNaN(x) -> NaN
      [] ~IsNaN(x) /\ k = 1 -> x
      [] ~IsNaN(x) /\ k = 2 -> Square(x)
      [] OTHER ->
            PowSigned(x, k,
                      IF IsZero(x) \/ IsInf(x) \/ Abs(x) = One THEN Abs(x)
                      ELSE PowPositive(Abs(x), Num(k)))

\* ------------------------------------------------------------------------
\* Values and messages of the program
\* ------------------------------------------------------------------------
\* null / undefined: an argument that was not given, a field not yet set
Null == <<>>

NoError == "none"

ErrLengthMismatch == "Number of points must match number of values"

ErrNoPoints == "At least one data point is required"

\* `Unknown radial basis function: ${func}`
ErrUnknownFunction(func) == "Unknown radial basis function: " \o func

ErrSingular == "Matrix is singular or nearly singular"

\* `Point dimension (${point.length}) must match training data dimension
\* (${this.nodes[0].length})`
ErrPointDimension(got, expected) ==
    "Point dimension (" \o ToString(got)
        \o ") must match training data dimension (" \o ToString(expected) \o ")"

\* A completed call: a value returned, or an Error thrown.
Return(v) == [err |-> NoError, val |-> v]

Throw(msg) == [err |-> msg, val |-> Null]

\* ------------------------------------------------------------------------
\* RbfInterpolator: private methods
\* ------------------------------------------------------------------------
\* p[i] of a JavaScript array inside an arithmetic expression: an index past
\* the end reads undefined, which arithmetic turns into NaN.
Coord(p, i) == IF i <= Len(p) THEN p[i] ELSE NaN

\* the loop of euclideanDistance: sum of diff * diff over the indices i..len(p1)
RECURSIVE SumSquares(_, _, _, _)
SumSquares(p1, p2, i, sum) ==
    IF i > Len(p1) THEN sum
    ELSE LET diff == Sub(p1[i], Coord(p2, i))
         IN  SumSquares(p1, p2, i + 1, Add(sum, Mul(diff, diff)))

euclideanDistance(p1, p2) == Sqrt(SumSquares(p1, p2, 1, Zero))

\* The loops of computeEpsilon; acc is <<sumDist, count>>.  A loop over
\* lo..hi is the loop over its first half followed, from the sums that one
\* leaves, by the loop over its second half.
\* for (j = lo; j <= hi; j++) { sumDist += distance(pts[i], pts[j]); count++ }
RECURSIVE InnerPairSum(_, _, _, _, _)
InnerPairSum(pts, i, lo, hi, acc) ==
    CASE lo > hi -> acc
      [] lo = hi -> <<Add(acc[1], euclideanDistance(pts[i], pts[lo])), acc[2] + 1>>
      [] lo < hi ->
            CHOOSE out \in
                {InnerPairSum(pts, i, ((lo + hi) \div 2) + 1, hi, first) :
                     first \in {InnerPairSum(pts, i, lo, (lo + hi) \div 2, acc)}} : TRUE

\* for (i = lo; i <= hi; i++) { the inner loop over j = i+1..sampleSize }
RECURSIVE PairSum(_, _, _, _, _)
PairSum(pts, sampleSize, lo, hi, acc) ==
    CASE lo > hi -> acc
      [] lo = hi -> InnerPairSum(pts, lo, lo + 1, sampleSize, acc)
      [] lo < hi ->
            CHOOSE out \in
                {PairSum(pts, sampleSize, ((lo + hi) \div 2) + 1, hi, first) :
                     first \in {PairSum(pts, sampleSize, lo, (lo + hi) \div 2, acc)}} : TRUE

\* the prefix of the training points the estimator looks at
SampleLimit ==
    100

Min(a, b) == IF a < b THEN a ELSE b

\* count > 0 ? sumDist / count : 1.0, acc being <<sumDist, count>>
MeanDistance(acc) == IF acc[2] > 0 THEN Div(acc[1], Num(acc[2])) ELSE One

\* computeEpsilon looking at all the training points
computeEpsilonOfAll(pts) ==
    IF Len(pts) < 2 THEN One
    ELSE MeanDistance(PairSum(pts, Len(pts), 1, Len(pts), <<Zero, 0>>))

computeEpsilon(pts) ==
    IF Len(pts) < 2 THEN One
    ELSE MeanDistance(PairSum(pts, Min(Len(pts), SampleLimit), 1,
                              Min(Len(pts), SampleLimit), <<Zero, 0>>))

\* func.toLowerCase(), on the kernel names the model passes in
ToLowerCase(s) ==
    CASE s = "Thin_Plate" -> "thin_plate"
      [] s = "GAUSSIAN" -> "gaussian"
      [] OTHER -> s

\* the case labels of getRbfFunction
KernelNames ==
    {"thin_plate", "multiquadric", "inverse_multiquadric", "inverse",
     "gaussian", "linear", "squared", "quintic"}

\* getRbfFunction with a default case that falls back to a kernel
getRbfFunctionDefaulting(func) ==
    LET name == ToLowerCase(func)
    IN  IF name \in KernelNames
        THEN Return(IF name = "inverse" THEN "inverse_multiquadric" ELSE name)
        ELSE Return("linear")

\* getRbfFunction: the closure is modelled by the label of its case; it
\* reads this.epsilon when it is called.
getRbfFunction(func) ==
    LET name == ToLowerCase(func)
    IN  IF name \in KernelNames
        THEN Return(IF name = "inverse" THEN "inverse_multiquadric" ELSE name)
        ELSE Throw(ErrUnknownFunction(func))

\* the body of the closure after const r = this.euclideanDistance(x1, x2)
Kernel(kernel, eps, r) ==
    CASE kernel = "thin_plate" ->
            IF StrictEq(r, Zero) THEN Zero ELSE Mul(Mul(r, r), Log(r))
      [] kernel = "multiquadric" -> Sqrt(Add(One, Square(Mul(eps, r))))
      [] kernel = "inverse_multiquadric" ->
            Div(One, Sqrt(Add(One, Square(Mul(eps, r)))))
      [] kernel = "gaussian" -> Exp(Neg(Square(Mul(eps, r))))
      [] kernel = "linear" -> r
      [] kernel = "squared" -> Square(r)
      [] kernel = "quintic" -> Pow(r, 5)

\* this.norm(x1, x2), with eps the value of this.epsilon at the call
Phi(kernel, eps, x1, x2) == Kernel(kernel, eps, euclideanDistance(x1, x2))

\* the inner loop of computeWeights: A[i][j] = this.norm(nodes[i], nodes[j])
KernelMatrix(kernel, eps, nds) ==
    [i \in 1..Len(nds) |->
        [j \in 1..Len(nds) |-> Phi(kernel, eps, nds[i], nds[j])]]

\* A[i][i] += this.smooth, for every row i
SmoothDiagonal(A, sm) ==
    [i \in 1..Len(A) |->
        [j \in 1..Len(A) |-> IF i = j THEN Add(A[i][j], sm) ELSE A[i][j]]]

\* BuildMatrix with the smoothing added at every turn of the inner loop, to
\* the entry just written
BuildMatrixSmoothsAll(kernel, eps, nds, sm) ==
    [i \in 1..Len(nds) |->
        [j \in 1..Len(nds) |-> Add(Phi(kernel, eps, nds[i], nds[j]), sm)]]

\* The interpolation matrix of computeWeights: A[i][j] = norm(nodes[i],
\* nodes[j]), with the smoothing added to the diagonal.
BuildMatrix(kernel, eps, nds, sm) ==
    SmoothDiagonal(KernelMatrix(kernel, eps, nds), sm)

\* the literal 1e-12
Tolerance == <<0, 983, 18446744, 19786257>>

\* x < 1e-12, without Math.abs
BelowToleranceSigned(x) == Less(x, Tolerance)

\* Math.abs(x) < 1e-12
BelowTolerance(x) == Less(Abs(x), Tolerance)

\* the pivot search taking a later row on equal |entry|
RECURSIVE FindPivotLastOnTies(_, _, _, _)
FindPivotLastOnTies(aug, col, row, maxRow) ==
    IF row > Len(aug) THEN maxRow
    ELSE FindPivotLastOnTies(aug, col, row + 1,
                   IF ~Less(Abs(aug[row][col]), Abs(aug[maxRow][col]))
                   THEN row ELSE maxRow)

\* the pivot search: the first row of col..n with the largest |entry| in col
RECURSIVE FindPivot(_, _, _, _)
FindPivot(aug, col, row, maxRow) ==
    IF row > Len(aug) THEN maxRow
    ELSE FindPivot(aug, col, row + 1,
                   IF Greater(Abs(aug[row][col]), Abs(aug[maxRow][col]))
                   THEN row ELSE maxRow)

SwapRows(aug, a, b) ==
    [r \in 1..Len(aug) |-> IF r = a THEN aug[b] ELSE IF r = b THEN aug[a] ELSE aug[r]]

\* EliminateColumn with the inner loop stopping at j < n: the right-hand
\* side is left as it was
EliminateColumnSkipsRhs(aug, col) ==
    [r \in 1..Len(aug) |->
        IF r <= col THEN aug[r]
        ELSE LET factor == Div(aug[r][col], aug[col][col])
             IN  [j \in 1..Len(aug) + 1 |->
                    IF j < col \/ j > Len(aug) THEN aug[r][j]
                    ELSE Sub(aug[r][j], Mul(factor, aug[col][j]))]]

\* the rows below col, each minus factor times the pivot row, from col on
EliminateColumn(aug, col) ==
    [r \in 1..Len(aug) |->
        IF r <= col THEN aug[r]
        ELSE LET factor == Div(aug[r][col], aug[col][col])
             IN  [j \in 1..Len(aug) + 1 |->
                    IF j < col THEN aug[r][j]
                    ELSE Sub(aug[r][j], Mul(factor, aug[col][j]))]]

\* ForwardEliminate without the check for a singular matrix
RECURSIVE ForwardEliminateUnchecked(_, _)
ForwardEliminateUnchecked(aug, col) ==
    IF col > Len(aug) THEN Return(aug)
    ELSE LET swapped == SwapRows(aug, col, FindPivot(aug, col, col + 1, col))
         IN  ForwardEliminateUnchecked(EliminateColumn(swapped, col), col + 1)

\* forward elimination with partial pivoting, from column col on
RECURSIVE ForwardEliminate(_, _)
ForwardEliminate(aug, col) ==
    IF col > Len(aug) THEN Return(aug)
    ELSE LET swapped == SwapRows(aug, col, FindPivot(aug, col, col + 1, col))
         IN  IF BelowTolerance(swapped[col][col]) THEN Throw(ErrSingular)
             ELSE ForwardEliminate(EliminateColumn(swapped, col), col + 1)

\* the inner loop of back substitution: sum -= augmented[i][j] * x[j]
RECURSIVE BackSum(_, _, _, _, _)
BackSum(aug, x, i, j, sum) ==
    IF j > Len(aug) THEN sum
    ELSE BackSum(aug, x, i, j + 1, Sub(sum, Mul(aug[i][j], x[j])))

\* one turn of back substitution: x[i] = sum / augmented[i][i]
SolveRow(aug, x, i) ==
    LET sum == BackSum(aug, x, i, i + 1, aug[i][Len(aug) + 1])
    IN  [x EXCEPT ![i] = Div(sum, aug[i][i])]

\* back substitution from row i up to the first row
RECURSIVE BackSubstitute(_, _, _)
BackSubstitute(aug, x, i) ==
    IF i < 1 THEN x
    ELSE BackSubstitute(aug, SolveRow(aug, x, i), i - 1)

\* the augmented matrix [A|b]
Augmented(A, b) == [i \in 1..Len(A) |-> A[i] \o <<b[i]>>]

\* solveLinearSystem with x as long as a row of the augmented matrix
solveLinearSystemLongSolution(A, b) ==
    LET n == Len(A)
        augmented == Augmented(A, b)
        fwd == ForwardEliminate(augmented, 1)
    IN  IF fwd.err # NoError THEN fwd
        ELSE Return(BackSubstitute(fwd.val, [i \in 1..(n + 1) |-> Zero], n))

solveLinearSystem(A, b) ==
    LET n == Len(A)
        augmented == Augmented(A, b)
        fwd == ForwardEliminate(augmented, 1)
    IN  IF fwd.err # NoError THEN fwd
        ELSE Return(BackSubstitute(fwd.val, [i \in 1..n |-> Zero], n))

computeWeights(kernel, eps, nds, sm, d) ==
    solveLinearSystem(BuildMatrix(kernel, eps, nds, sm), d)

\* ------------------------------------------------------------------------
\* RbfInterpolator: public methods, as functions of the instance's fields
\* ------------------------------------------------------------------------
\* WeightedSum with the loop stopping one node early
RECURSIVE WeightedSumSkipsLast(_, _, _, _, _, _, _)
WeightedSumSkipsLast(kernel, eps, nds, w, point, i, result) ==
    IF i >= Len(nds) THEN result
    ELSE WeightedSumSkipsLast(kernel, eps, nds, w, point, i + 1,
                     Add(result, Mul(w[i], Phi(kernel, eps, point, nds[i]))))

\* the loop of interpolatePoint: result += weights[i] * norm(point, nodes[i])
RECURSIVE WeightedSum(_, _, _, _, _, _, _)
WeightedSum(kernel, eps, nds, w, point, i, result) ==
    IF i > Len(nds) THEN result
    ELSE WeightedSum(kernel, eps, nds, w, point, i + 1,
                     Add(result, Mul(w[i], Phi(kernel, eps, point, nds[i]))))

\* interpolatePoint without the check of the point's dimension
interpolatePointUnchecked(kernel, eps, nds, w, point) ==
    Return(WeightedSum(kernel, eps, nds, w, point, 1, Zero))

interpolatePoint(kernel, eps, nds, w, point) ==
    IF Len(point) # Len(nds[1])
    THEN Throw(ErrPointDimension(Len(point), Len(nds[1])))
    ELSE Return(WeightedSum(kernel, eps, nds, w, point, 1, Zero))

RECURSIVE MapInterpolate(_, _, _, _, _, _, _)
\* MapNext putting each result in front of the earlier ones
MapNextPrepends(kernel, eps, nds, w, pts, k, out, r) ==
    IF r.err # NoError THEN r
    ELSE MapInterpolate(kernel, eps, nds, w, pts, k + 1, <<r.val>> \o out)

\* MapNext leaving out the elements that throw
MapNextSkipsFailures(kernel, eps, nds, w, pts, k, out, r) ==
    MapInterpolate(kernel, eps, nds, w, pts, k + 1,
                   IF r.err # NoError THEN out ELSE Append(out, r.val))

\* r is what the callback gave for pts[k]: its Error ends the call, its value
\* is the next element of the list
MapNext(kernel, eps, nds, w, pts, k, out, r) ==
    IF r.err # NoError THEN r
    ELSE MapInterpolate(kernel, eps, nds, w, pts, k + 1, Append(out, r.val))

\* points.map(point => this.interpolatePoint(point)): the first element that
\* throws ends the call, and no list is returned.
MapInterpolate(kernel, eps, nds, w, pts, k, out) ==
    IF k > Len(pts) THEN Return(out)
    ELSE MapNext(kernel, eps, nds, w, pts, k, out,
                 interpolatePoint(kernel, eps, nds, w, pts[k]))

interpolate(kernel, eps, nds, w, pts) ==
    MapInterpolate(kernel, eps, nds, w, pts, 1, <<>>)

\* An array the instance stores is either a new object or the very object
\* the caller passed; `aliases' names the stored arrays that are the
\* caller's objects: "nodes" (this.nodes is the caller's list of points),
\* "rows" (each this.nodes[i] is the caller's point i), "di" (this.di is the
\* caller's list of values).
\* this.nodes = [...points]: a new list of the caller's point arrays
CopyPointsShallow(pts) == [val |-> pts, aliases |-> {"rows"}]

\* this.nodes = points.map(p => [...p]): a new list of new point arrays
CopyPoints(pts) ==
    [val |-> [i \in 1..Len(pts) |-> [j \in 1..Len(pts[i]) |-> pts[i][j]]],
     aliases |-> {}]

\* this.di = [...values]: a new list
CopyValues(vals) ==
    [val |-> [i \in 1..Len(vals) |-> vals[i]], aliases |-> {}]

\* this.epsilon: the estimate when no epsilon is given, else the one given
ResolveEpsilon(pts, eps) ==
    IF eps = Null THEN computeEpsilon(pts) ELSE eps

\* this.weights = this.computeWeights(): the fields of the instance, or the
\* Error of the solver; n and d are the copies of the training data, e is
\* this.epsilon, w what computeWeights gave
StoreFields(n, d, sm, e, kernel, w) ==
    IF w.err # NoError THEN w
    ELSE Return([nodes |-> n.val, di |-> d.val, smooth |-> sm,
                 epsilon |-> e, norm |-> kernel, weights |-> w.val,
                 aliases |-> n.aliases \cup d.aliases])

\* FitKernel with the weights computed for epsilon 1 instead of this.epsilon
FitKernelWithUnitEpsilon(n, d, sm, e, f) ==
    IF f.err # NoError THEN f
    ELSE StoreFields(n, d, sm, e, f.val,
                     computeWeights(f.val, One, n.val, sm, d.val))

\* this.norm = this.getRbfFunction(func), f being what getRbfFunction gave,
\* and the statements after it
FitKernel(n, d, sm, e, f) ==
    IF f.err # NoError THEN f
    ELSE StoreFields(n, d, sm, e, f.val,
                     computeWeights(f.val, e, n.val, sm, d.val))

\* the constructor from the copies of the training data on
Fit(pts, vals, func, sm, eps) ==
    FitKernel(CopyPoints(pts), CopyValues(vals), sm, ResolveEpsilon(pts, eps),
              getRbfFunction(func))

\* the constructor rejecting only a values array that is too short
ConstructorShortValuesOnly(pts, vals, func, sm, eps) ==
    IF Len(pts) > Len(vals) THEN Throw(ErrLengthMismatch)
    ELSE IF Len(pts) = 0 THEN Throw(ErrNoPoints)
    ELSE Fit(pts, vals, func, sm, eps)

\* the constructor without the check for an empty training set
ConstructorNoEmptyCheck(pts, vals, func, sm, eps) ==
    IF Len(pts) # Len(vals) THEN Throw(ErrLengthMismatch)
    ELSE Fit(pts, vals, func, sm, eps)

\* new RbfInterpolator(pts, vals, func, sm, eps): the fields of the new
\* instance, or the Error the constructor throws.
Constructor(pts, vals, func, sm, eps) ==
    IF Len(pts) # Len(vals) THEN Throw(ErrLengthMismatch)
    ELSE IF Len(pts) = 0 THEN Throw(ErrNoPoints)
    ELSE Fit(pts, vals, func, sm, eps)

\* ------------------------------------------------------------------------
\* rbf(): the convenience function
\* ------------------------------------------------------------------------
\* a property of the parameter object, or the default of the destructuring
\* pattern when the caller left it out
Param(params, name, default) ==
    IF name \in DOMAIN params THEN params[name] ELSE default

\* .interpolate(interpPoints) on the instance the constructor gave; the
\* constructor's Error if it threw
InterpolateOn(made, pts) ==
    CHOOSE r \in {IF interpolator.err # NoError THEN interpolator
                  ELSE interpolate(interpolator.val.norm, interpolator.val.epsilon,
                                   interpolator.val.nodes, interpolator.val.weights,
                                   pts) : interpolator \in {made}} : TRUE

\* the literal 0.01
DefaultSmooth == <<0, 1016, 21474836, 128849019>>

\* rbf({func = "gaussian", smooth = 0.01, epsilon = null, trainPoints,
\*      trainValues, interpPoints})
rbf(params) ==
    InterpolateOn(Constructor(params.trainPoints, params.trainValues,
                              Param(params, "func", "gaussian"),
                              Param(params, "smooth", DefaultSmooth),
                              Param(params, "epsilon", Null)),
                  params.interpPoints)

\* ------------------------------------------------------------------------
\* Bounds and input sets
\* ------------------------------------------------------------------------
\* at most MaxN training points
MaxN ==
    2

\* coordinates are integers 0..MaxCoord
MaxCoord ==
    1

\* points have 1..MaxDim coordinates
MaxDim ==
    2

\* training values are integers 0..MaxVal
MaxVal ==
    1

\* interpolate() is called with at most MaxBatch query points
MaxBatch ==
    2

\* SpecFit: at most MaxFitN training points, on a line, at 0..MaxFitCoord
MaxFitN ==
    3

MaxFitCoord ==
    2

\* SpecEps: at most MaxTail training points after the first SampleLimit
MaxTail ==
    2

SeqsUpTo(S, n) == UNION {[1..k -> S] : k \in 0..n}

PointSet == UNION {[1..d -> {Num(c) : c \in 0..MaxCoord}] : d \in 1..MaxDim}

LinePointSet == {<<Num(c)>> : c \in 0..MaxFitCoord}

ValueSet == {Num(v) : v \in 0..MaxVal}

\* the kernel names callers pass: the case labels, the names the README and
\* the tests use, and a name in mixed case
Funcs == KernelNames \cup {"cubic", "Thin_Plate"}

Smooths == {Zero, Half}

\* the points the lists given to interpolate() are made of
BatchPoints == {<<Zero>>, <<One>>, <<Zero, One>>}

Epsilons == {Null, Two}

\* ------------------------------------------------------------------------
\* State
\* ------------------------------------------------------------------------
VARIABLES
    points,     \* the caller's array of training points
    values,     \* the caller's array of training values
    given,      \* the arguments the constructor was called with
    phase,      \* "Unfitted", "Fitted", or "Failed" (the constructor threw)
    nodes,      \* this.nodes
    di,         \* this.di
    smooth,     \* this.smooth
    epsilon,    \* this.epsilon
    norm,       \* this.norm
    weights,    \* this.weights
    aliases,    \* the stored arrays that are the caller's own objects
    frame,      \* the constructor's activation, when it is followed step by step
    call,       \* the method call whose outcome the caller holds
    ret,        \* the value that call returned (Null if it threw)
    err         \* the message of the Error the last call threw, or NoError

fields == <<nodes, di, smooth, epsilon, norm, weights>>

vars == <<points, values, given, phase, nodes, di, smooth, epsilon, norm,
          weights, aliases, frame, call, ret, err>>

NoCall == [op |-> "none", query |-> Null]

\* no constructor is running: pc is the statement to run next, func, sm and
\* eps are the arguments, augmented, col, x and i the local variables of
\* solveLinearSystem
NoFrame == [pc |-> "idle", func |-> "", sm |-> Null, eps |-> Null,
            augmented |-> Null, col |-> 0, x |-> Null, i |-> 0]

Unfitted ==
    /\ given = [points |-> Null, values |-> Null, func |-> "",
                smooth |-> Null, epsilon |-> Null]
    /\ phase = "Unfitted"
    /\ nodes = Null
    /\ di = Null
    /\ smooth = Null
    /\ epsilon = Null
    /\ norm = ""
    /\ weights = Null
    /\ aliases = {}
    /\ frame = NoFrame
    /\ call = NoCall
    /\ ret = Null
    /\ err = NoError

Init ==
    /\ points \in SeqsUpTo(PointSet, MaxN)
    /\ values \in SeqsUpTo(ValueSet, MaxN)
    /\ Unfitted

\* new RbfInterpolator(points, values, func, sm, eps)
Construct(func, sm, eps) ==
    /\ phase = "Unfitted"
    /\ \E r \in {Constructor(points, values, func, sm, eps)} :
           /\ given' = [points |-> points, values |-> values, func |-> func,
                        smooth |-> sm, epsilon |-> eps]
           /\ err' = r.err
           /\ IF r.err = NoError
              THEN /\ phase' = "Fitted"
                   /\ nodes' = r.val.nodes
                   /\ di' = r.val.di
                   /\ smooth' = r.val.smooth
                   /\ epsilon' = r.val.epsilon
                   /\ norm' = r.val.norm
                   /\ weights' = r.val.weights
                   /\ aliases' = r.val.aliases
              ELSE /\ phase' = "Failed"
                   /\ UNCHANGED <<fields, aliases>>
    /\ UNCHANGED <<points, values, call, ret, frame>>

\* interpolatePoint re-estimating this.epsilon from the nodes and the query
InterpolatePointRefits(point) ==
    /\ phase = "Fitted"
    /\ call = NoCall
    /\ \E r \in {interpolatePoint(norm, epsilon, nodes, weights, point)} :
           /\ call' = [op |-> "interpolatePoint", query |-> point]
           /\ err' = r.err
           /\ ret' = r.val
    /\ epsilon' = computeEpsilon(Append(nodes, point))
    /\ UNCHANGED <<points, values, given, phase, nodes, di, smooth, norm, weights,
                   aliases, frame>>

\* interpolator.interpolatePoint(point)
InterpolatePoint(point) ==
    /\ phase = "Fitted"
    /\ call = NoCall
    /\ \E r \in {interpolatePoint(norm, epsilon, nodes, weights, point)} :
           /\ call' = [op |-> "interpolatePoint", query |-> point]
           /\ err' = r.err
           /\ ret' = r.val
    /\ UNCHANGED <<points, values, given, phase, fields, aliases, frame>>

\* interpolator.interpolate(pts)
Interpolate(pts) ==
    /\ phase = "Fitted"
    /\ call = NoCall
    /\ \E r \in {interpolate(norm, epsilon, nodes, weights, pts)} :
           /\ call' = [op |-> "interpolate", query |-> pts]
           /\ err' = r.err
           /\ ret' = r.val
    /\ UNCHANGED <<points, values, given, phase, fields, aliases, frame>>

\* The caller has used the outcome of its call (the value returned, or the
\* Error caught) and goes on to the next call on the same instance.
Continue ==
    /\ call # NoCall
    /\ call' = NoCall
    /\ ret' = Null
    /\ err' = NoError
    /\ UNCHANGED <<points, values, given, phase, fields, aliases, frame>>

Next ==
    \/ \E func \in Funcs, sm \in Smooths, eps \in Epsilons : Construct(func, sm, eps)
    \/ \E point \in PointSet : InterpolatePoint(point)
    \/ \E pts \in SeqsUpTo(BatchPoints, MaxBatch) : Interpolate(pts)
    \/ Continue

Spec == Init /\ [][Next]_vars

\* const points = [[0, 0], [1, 0], [0, 1], [1, 1]]; const values = [0, 1, 1, 2]
TestPoints == <<<<Zero, Zero>>, <<One, Zero>>, <<Zero, One>>, <<One, One>>>>

TestValues == <<Zero, One, One, Two>>

\* two points 49 apart with the values 2^30: training data on which the
\* rounding of the solve is larger than 1e-8
WidePoints == <<<<Zero>>, <<Num(49)>>>>

WideValues == <<TwoTo(30), TwoTo(30)>>

\* Fitting alone: on training sets of up to MaxFitN points on a line, on the
\* data of Test 1 and on the wide data.
InitFit ==
    /\ \/ /\ points \in SeqsUpTo(LinePointSet, MaxFitN)
          /\ values \in SeqsUpTo(ValueSet, MaxFitN)
       \/ /\ points = TestPoints
          /\ values = TestValues
       \/ /\ points = WidePoints
          /\ values = WideValues
    /\ Unfitted

NextFit ==
    \E func \in Funcs, sm \in Smooths, eps \in Epsilons : Construct(func, sm, eps)

SpecFit == InitFit /\ [][NextFit]_vars

\* ------------------------------------------------------------------------
\* The caller changing its own arrays after the construction
\* ------------------------------------------------------------------------
\* points[i][j] = c: seen through this.nodes if its rows are the caller's
CallerSetsCoordinate(i, j, c) ==
    /\ phase = "Fitted"
    /\ call = NoCall
    /\ i \in 1..Len(points)
    /\ j \in 1..Len(points[i])
    /\ points[i][j] # c
    /\ points' = [points EXCEPT ![i][j] = c]
    /\ nodes' = IF "rows" \in aliases THEN [nodes EXCEPT ![i][j] = c] ELSE nodes
    /\ UNCHANGED <<values, given, phase, di, smooth, epsilon, norm, weights,
                   aliases, frame, call, ret, err>>

\* points.pop(): seen through this.nodes if it is the caller's list
CallerPopsPoint ==
    /\ phase = "Fitted"
    /\ call = NoCall
    /\ Len(points) > 0
    /\ points' = SubSeq(points, 1, Len(points) - 1)
    /\ nodes' = IF "nodes" \in aliases THEN SubSeq(nodes, 1, Len(nodes) - 1)
                ELSE nodes
    /\ UNCHANGED <<values, given, phase, di, smooth, epsilon, norm, weights,
                   aliases, frame, call, ret, err>>

\* values[i] = v: seen through this.di if it is the caller's list
CallerSetsValue(i, v) ==
    /\ phase = "Fitted"
    /\ call = NoCall
    /\ i \in 1..Len(values)
    /\ values[i] # v
    /\ values' = [values EXCEPT ![i] = v]
    /\ di' = IF "di" \in aliases THEN [di EXCEPT ![i] = v] ELSE di
    /\ UNCHANGED <<points, given, phase, nodes, smooth, epsilon, norm, weights,
                   aliases, frame, call, ret, err>>

\* the kernels the models of SpecOwn are built with
OwnFuncs == {"linear", "gaussian"}

\* A model is built, its caller goes on changing the arrays it was built
\* from, and evaluates it.
NextOwn ==
    \/ \E func \in OwnFuncs, sm \in Smooths : Construct(func, sm, Null)
    \/ \E i \in 1..MaxN, j \in 1..MaxDim, c \in 0..MaxCoord :
           CallerSetsCoordinate(i, j, Num(c))
    \/ CallerPopsPoint
    \/ \E i \in 1..MaxN, v \in ValueSet : CallerSetsValue(i, v)
    \/ \E point \in BatchPoints : InterpolatePoint(point)
    \/ Continue

SpecOwn == Init /\ [][NextOwn]_vars

\* ------------------------------------------------------------------------
\* The constructor followed statement by statement
\* ------------------------------------------------------------------------
\* throw new Error(msg): the constructor is left and the instance it was
\* building is dropped
Thrown(msg) ==
    /\ phase' = "Failed"
    /\ err' = msg
    /\ frame' = [frame EXCEPT !.pc = "thrown"]
    /\ nodes' = Null
    /\ di' = Null
    /\ smooth' = Null
    /\ epsilon' = Null
    /\ norm' = ""
    /\ weights' = Null
    /\ aliases' = {}
    /\ UNCHANGED <<points, values, given, call, ret>>

\* the constructor goes on to the statement pc
Goto(pc) ==
    /\ frame' = [frame EXCEPT !.pc = pc]
    /\ UNCHANGED <<points, values, given, phase, call, ret, err>>

\* new RbfInterpolator(points, values, func, sm, eps) is entered
Enter(func, sm, eps) ==
    /\ phase = "Unfitted"
    /\ frame.pc = "idle"
    /\ phase' = "Constructing"
    /\ given' = [points |-> points, values |-> values, func |-> func,
                 smooth |-> sm, epsilon |-> eps]
    /\ frame' = [NoFrame EXCEPT !.pc = "lengths", !.func = func, !.sm = sm,
                                !.eps = eps]
    /\ UNCHANGED <<points, values, fields, aliases, call, ret, err>>

\* the emptiness of points tested ahead of the comparison of the lengths
CheckLengthsEmptyFirst ==
    /\ frame.pc = "lengths"
    /\ IF Len(points) = 0 THEN Thrown(ErrNoPoints)
       ELSE IF Len(points) # Len(values) THEN Thrown(ErrLengthMismatch)
       ELSE Goto("empty") /\ UNCHANGED <<fields, aliases>>

\* if (points.length !== values.length) throw
CheckLengths ==
    /\ frame.pc = "lengths"
    /\ IF Len(points) # Len(values) THEN Thrown(ErrLengthMismatch)
       ELSE Goto("empty") /\ UNCHANGED <<fields, aliases>>

\* if (points.length === 0) throw
CheckEmpty ==
    /\ frame.pc = "empty"
    /\ IF Len(points) = 0 THEN Thrown(ErrNoPoints)
       ELSE Goto("copy") /\ UNCHANGED <<fields, aliases>>

\* this.nodes = ...; this.di = ...; this.smooth = smooth
StoreData ==
    /\ frame.pc = "copy"
    /\ nodes' = CopyPoints(points).val
    /\ di' = CopyValues(values).val
    /\ aliases' = CopyPoints(points).aliases \cup CopyValues(values).aliases
    /\ smooth' = frame.sm
    /\ Goto("epsilon")
    /\ UNCHANGED <<epsilon, norm, weights>>

\* this.epsilon = ...
StoreEpsilon ==
    /\ frame.pc = "epsilon"
    /\ epsilon' = ResolveEpsilon(points, frame.eps)
    /\ Goto("kernel")
    /\ UNCHANGED <<nodes, di, smooth, norm, weights, aliases>>

\* this.norm = this.getRbfFunction(func)
StoreKernel ==
    /\ frame.pc = "kernel"
    /\ \E f \in {getRbfFunction(frame.func)} :
           IF f.err # NoError THEN Thrown(f.err)
           ELSE /\ norm' = f.val
                /\ Goto("matrix")
                /\ UNCHANGED <<nodes, di, smooth, epsilon, weights, aliases>>

\* computeWeights builds A and enters solveLinearSystem, which makes [A|b]
BuildSystem ==
    /\ frame.pc = "matrix"
    /\ frame' = [frame EXCEPT
                    !.pc = "pivot",
                    !.augmented = Augmented(BuildMatrix(norm, epsilon, nodes, smooth), di),
                    !.col = 1]
    /\ UNCHANGED <<points, values, given, phase, fields, aliases, call, ret, err>>

\* the pivot search of column col, and the swap
SwapPivot ==
    /\ frame.pc = "pivot"
    /\ frame' = [frame EXCEPT
                    !.pc = "check",
                    !.augmented = SwapRows(frame.augmented, frame.col,
                                      FindPivot(frame.augmented, frame.col,
                                                frame.col + 1, frame.col))]
    /\ UNCHANGED <<points, values, given, phase, fields, aliases, call, ret, err>>

\* if (Math.abs(augmented[col][col]) < 1e-12) throw
CheckPivot ==
    /\ frame.pc = "check"
    /\ IF BelowTolerance(frame.augmented[frame.col][frame.col])
       THEN Thrown(ErrSingular)
       ELSE Goto("eliminate") /\ UNCHANGED <<fields, aliases>>

\* the elimination of column col; then the next column, or the back
\* substitution with x = Array(n).fill(0) from i = n - 1
Eliminate ==
    /\ frame.pc = "eliminate"
    /\ LET n == Len(frame.augmented)
       IN  frame' = [frame EXCEPT
                        !.augmented = EliminateColumn(frame.augmented, frame.col),
                        !.col = frame.col + 1,
                        !.pc = IF frame.col < n THEN "pivot" ELSE "back",
                        !.x = IF frame.col < n THEN Null
                              ELSE [k \in 1..n |-> Zero],
                        !.i = IF frame.col < n THEN 0 ELSE n]
    /\ UNCHANGED <<points, values, given, phase, fields, aliases, call, ret, err>>

\* one turn of the back substitution loop
BackSubstituteRow ==
    /\ frame.pc = "back"
    /\ frame' = [frame EXCEPT
                    !.x = SolveRow(frame.augmented, frame.x, frame.i),
                    !.i = frame.i - 1,
                    !.pc = IF frame.i > 1 THEN "back" ELSE "store"]
    /\ UNCHANGED <<points, values, given, phase, fields, aliases, call, ret, err>>

\* this.weights = the x returned; the constructor returns
StoreWeights ==
    /\ frame.pc = "store"
    /\ weights' = frame.x
    /\ phase' = "Fitted"
    /\ frame' = [frame EXCEPT !.pc = "returned"]
    /\ UNCHANGED <<points, values, given, nodes, di, smooth, epsilon, norm,
                   aliases, call, ret, err>>

\* the kernel names the constructor is followed with
StepFuncs == {"linear", "thin_plate", "gaussian", "cubic", "nearest"}

\* the smoothings it is followed with: also 1e-13 and 1e-12, which are
\* below and at the solver's tolerance
StepSmooths == Smooths \cup {<<0, 979, 29514790, 139032194>>, Tolerance}

NextSteps ==
    \/ \E func \in StepFuncs, sm \in StepSmooths, eps \in Epsilons :
           Enter(func, sm, eps)
    \/ CheckLengths
    \/ CheckEmpty
    \/ StoreData
    \/ StoreEpsilon
    \/ StoreKernel
    \/ BuildSystem
    \/ SwapPivot
    \/ CheckPivot
    \/ Eliminate
    \/ BackSubstituteRow
    \/ StoreWeights

SpecSteps == InitFit /\ [][NextSteps]_vars

\* ------------------------------------------------------------------------
\* The resolution of epsilon
\* ------------------------------------------------------------------------
\* n points on a line: point i of the first SampleLimit at i mod m, the
\* points after them at c
LongLine(n, m, c) ==
    [i \in 1..n |-> <<Num(IF i <= SampleLimit THEN i % m ELSE c)>>]

\* training sets around the size of the estimator's sample
LongLines ==
    {LongLine(n, m, c) : n \in (SampleLimit - 1)..(SampleLimit + MaxTail),
                         m \in 1..(MaxFitCoord + 1), c \in 0..MaxFitCoord}

\* the corners of a rectangle of sides 3 and 4
Corners == {<<Num(x), Num(y)>> : x \in {0, 3}, y \in {0, 4}}

\* The training sets epsilon is resolved for: up to MaxFitN points on a line
\* or at the corners of the rectangle, and the long ones; each with as many
\* values as points.
InitEps ==
    /\ points \in SeqsUpTo(LinePointSet, MaxFitN) \cup SeqsUpTo(Corners, MaxFitN)
                       \cup LongLines
    /\ values = [i \in 1..Len(points) |-> Zero]
    /\ Unfitted

\* the kernel names the constructor is entered with: one it knows, and one
\* for which it throws right after it has resolved epsilon
EpsFuncs == {"linear", "nearest"}

\* The constructor followed statement by statement as in SpecSteps; a long
\* training set is passed with the name the constructor does not know, so
\* that no system of that size is solved.
NextEps ==
    \/ \E func \in EpsFuncs, eps \in Epsilons \cup {One, Half} :
           /\ Len(points) <= MaxFitN \/ func \notin KernelNames
           /\ Enter(func, Half, eps)
    \/ CheckLengths
    \/ CheckEmpty
    \/ StoreData
    \/ StoreEpsilon
    \/ StoreKernel
    \/ BuildSystem
    \/ SwapPivot
    \/ CheckPivot
    \/ Eliminate
    \/ BackSubstituteRow
    \/ StoreWeights

SpecEps == InitEps /\ [][NextEps]_vars

\* ------------------------------------------------------------------------
\* Calls of rbf()
\* ------------------------------------------------------------------------
\* rbf(params) on the caller's training data; `given' keeps what the caller
\* passed, "" and Null standing for a property left out.
Rbf(params) ==
    /\ phase = "Unfitted"
    /\ call = NoCall
    /\ params.trainPoints = points
    /\ params.trainValues = values
    /\ \E r \in {rbf(params)} :
           /\ call' = [op |-> "rbf", query |-> params.interpPoints]
           /\ err' = r.err
           /\ ret' = r.val
    /\ given' = [points |-> points, values |-> values,
                 func |-> Param(params, "func", ""),
                 smooth |-> Param(params, "smooth", Null),
                 epsilon |-> Param(params, "epsilon", Null)]
    /\ UNCHANGED <<points, values, phase, fields, aliases, frame>>

\* the kernels and query lists rbf() is called with
RbfFuncs == {"thin_plate", "gaussian", "linear"}

RbfQueries == SeqsUpTo(PointSet, 1)

NextRbf ==
    \/ \E q \in RbfQueries :
           Rbf([trainPoints |-> points, trainValues |-> values,
                interpPoints |-> q])
    \/ \E q \in RbfQueries, func \in RbfFuncs :
           Rbf([trainPoints |-> points, trainValues |-> values,
                interpPoints |-> q, func |-> func])
    \/ \E q \in RbfQueries, sm \in Smooths :
           Rbf([trainPoints |-> points, trainValues |-> values,
                interpPoints |-> q, smooth |-> sm])
    \/ \E q \in RbfQueries, func \in RbfFuncs, sm \in Smooths :
           Rbf([trainPoints |-> points, trainValues |-> values,
                interpPoints |-> q, func |-> func, smooth |-> sm])

SpecRbf == Init /\ [][NextRbf]_vars

\* ------------------------------------------------------------------------
\* Properties
\* ------------------------------------------------------------------------
\* The error kinds of the specification, as sets of the messages thrown.
DimensionMismatch ==
    {ErrLengthMismatch} \cup {ErrPointDimension(a, b) : a, b \in 0..MaxDim}

EmptyTrainingSet == {ErrNoPoints}

InvalidKernel == {ErrUnknownFunction(f) : f \in Funcs \cup StepFuncs \cup RbfFuncs}

SingularMatrix == {ErrSingular}

\* the constructor has run
Constructed == phase # "Unfitted"

\* all points of the list have the same number of coordinates
SameDimension(pts) == \A i, j \in 1..Len(pts) : Len(pts[i]) = Len(pts[j])

\* the caller's training data passes the constructor's two checks
ValidData == Len(given.points) = Len(given.values) /\ Len(given.points) >= 1

\* the kernel name given to the constructor is one of the case labels
Recognized == ToLowerCase(given.func) \in KernelNames

\* |x - y| <= 1e-8
Within1e8(x, y) ==
    LET diff == Abs(Sub(x, y))
    IN  ~IsNaN(diff) /\ ~Greater(diff, <<0, 996, 22517998, 36736058>>)

\* C1: constructing from a non-empty list of points that do not all have the
\* same number of coordinates (with as many values as points) fails with
\* DimensionMismatch and leaves no fitted model.
C1_MixedDimensionsRejected ==
    (Constructed /\ ValidData /\ ~SameDimension(given.points))
        => (phase = "Failed" /\ err \in DimensionMismatch)

\* C2: on a fitted model whose training points have dimension D,
\* interpolatePoint(query) throws the DimensionMismatch error and returns no
\* value when len(query) # D, and throws no DimensionMismatch when
\* len(query) = D.
C2_QueryDimensionChecked ==
    (phase = "Fitted" /\ SameDimension(nodes) /\ call.op = "interpolatePoint")
        => IF Len(call.query) # Len(nodes[1])
           THEN err = ErrPointDimension(Len(call.query), Len(nodes[1])) /\ ret = Null
           ELSE err \notin DimensionMismatch

C2_Witness ==
    /\ phase = "Fitted"
    /\ SameDimension(nodes)
    /\ call.op = "interpolatePoint"
    /\ Len(call.query) # Len(nodes[1])
    /\ err = ErrPointDimension(Len(call.query), Len(nodes[1]))

\* C3: constructing with len(points) # len(values) fails with
\* DimensionMismatch and leaves no fitted model.
C3_LengthMismatchRejected ==
    (Constructed /\ Len(given.points) # Len(given.values))
        => (phase = "Failed" /\ err = ErrLengthMismatch
            /\ err \in DimensionMismatch /\ weights = Null)

C3_Witness ==
    /\ phase = "Failed"
    /\ Len(given.points) < Len(given.values)
    /\ Len(given.points) >= 1
    /\ err = ErrLengthMismatch

\* C4: constructing with no training points and no values fails with
\* EmptyTrainingSet and leaves no fitted model; a fitted model has at least
\* one training point.
C4_EmptyTrainingSetRejected ==
    /\ (Constructed /\ given.points = <<>> /\ given.values = <<>>)
          => (phase = "Failed" /\ err \in EmptyTrainingSet /\ weights = Null)
    /\ phase = "Fitted" => Len(nodes) >= 1

C4_Witness ==
    /\ phase = "Failed"
    /\ given.points = <<>>
    /\ given.values = <<>>
    /\ err = ErrNoPoints

\* C5: constructing with a kernel name that is not recognised never yields a
\* fitted model; on training data that passes validation the error is
\* InvalidKernel; and no call on a fitted model throws InvalidKernel.
C5_UnknownKernelRejected ==
    /\ (Constructed /\ ~Recognized) => phase = "Failed"
    /\ (Constructed /\ ~Recognized /\ ValidData) => err \in InvalidKernel
    /\ phase = "Fitted" => err \notin InvalidKernel

C5_Witness ==
    /\ phase = "Failed"
    /\ ~Recognized
    /\ ValidData
    /\ err = ErrUnknownFunction(given.func)

\* the kernel names the README lists as supported and the tests pass
DocumentedNames ==
    {"thin_plate", "multiquadric", "inverse_multiquadric", "gaussian",
     "linear", "cubic", "quintic"}

\* C6: the constructor accepts every kernel name the README and the tests
\* list: for none of them does it throw the unknown-kernel error.
C6_DocumentedKernelsAccepted ==
    (Constructed /\ given.func \in DocumentedNames) => err \notin InvalidKernel

\* two training points coincide and carry different values
CoincidentConflict ==
    \E i, j \in 1..Len(given.points) :
        /\ i # j
        /\ given.points[i] = given.points[j]
        /\ given.values[i] # given.values[j]

\* C7: constructing, with a recognised kernel and smoothing 0, from training
\* points of one dimension two of which coincide with different values fails
\* with SingularMatrix and leaves no fitted model.
C7_CoincidentPointsSingular ==
    (Constructed /\ ValidData /\ SameDimension(given.points) /\ Recognized
        /\ given.smooth = Zero /\ CoincidentConflict)
        => (phase = "Failed" /\ err \in SingularMatrix /\ weights = Null)

C7_Witness ==
    /\ phase = "Failed"
    /\ ValidData
    /\ Len(given.points) = 3
    /\ given.points[1] # given.points[2]
    /\ CoincidentConflict
    /\ ToLowerCase(given.func) = "gaussian"
    /\ given.smooth = Zero
    /\ err = ErrSingular

\* the training points are pairwise distinct
Distinct(pts) == \A i, j \in 1..Len(pts) : i # j => pts[i] # pts[j]

\* what the fitted model returns at points[i]
AtTrainingPoint(i) ==
    interpolatePoint(norm, epsilon, nodes, weights, given.points[i])

\* the fitted model returns values[i] (within 1e-8) at every points[i]
ExactAtTrainingPoints ==
    \A i \in 1..Len(given.points) :
        /\ AtTrainingPoint(i).err = NoError
        /\ Within1e8(AtTrainingPoint(i).val, given.values[i])

\* the case of C8: smoothing 0, a recognised kernel, and pairwise distinct
\* training points of one dimension
ExactCase ==
    /\ Constructed
    /\ ValidData
    /\ SameDimension(given.points)
    /\ Distinct(given.points)
    /\ Recognized
    /\ given.smooth = Zero

\* C8 as claimed: in the exact case construction succeeds and the model
\* returns values[i] (within 1e-8) at every training point.
C8_AlwaysFitsExactly ==
    ExactCase => (phase = "Fitted" /\ ExactAtTrainingPoints)

\* the matrix whose entries are the kernel values interpolatePoint computes
\* between the stored nodes with the stored epsilon, smooth on the diagonal
KernelMatrixNow ==
    [i \in 1..Len(nodes) |->
        [j \in 1..Len(nodes) |->
            LET k == Phi(norm, epsilon, nodes[i], nodes[j])
            IN  IF i = j THEN Add(k, smooth) ELSE k]]

\* |row[1]| + ... + |row[n]|
RECURSIVE AbsSum(_, _)
AbsSum(row, n) ==
    IF n = 0 THEN Zero ELSE Add(AbsSum(row, n - 1), Abs(row[n]))

\* the largest of the first n numbers of the list, which are not negative
RECURSIVE Largest(_, _)
Largest(list, n) ==
    IF n = 0 THEN Zero
    ELSE IF Greater(list[n], Largest(list, n - 1)) THEN list[n]
    ELSE Largest(list, n - 1)

\* The rounding errors of the elimination with partial pivoting, of the back
\* substitution and of the weighted sum of interpolatePoint, for n training
\* points, are together at most (3 n^3 2^(n-1) + n) 2^-52 times the largest
\* absolute row sum of the kernel matrix times the largest absolute weight
\* (the backward error bound of the method, the growth of the entries under
\* partial pivoting being at most 2^(n-1)), as long as nothing overflows or
\* underflows.
RoundingBound(A, w, n) ==
    Mul(Mul(Num(3 * n * n * n * 2^(n - 1) + n), TwoTo(-52)),
        Mul(Largest([i \in 1..n |-> AbsSum(A[i], n)], n),
            Largest([i \in 1..n |-> Abs(w[i])], n)))

\* the fitted model returns values[i] at every points[i] up to the rounding
\* of the solve
ExactUpToRounding ==
    \A i \in 1..Len(given.points) :
        /\ AtTrainingPoint(i).err = NoError
        /\ ~IsNaN(AtTrainingPoint(i).val)
        /\ ~Greater(Abs(Sub(AtTrainingPoint(i).val, given.values[i])),
                    RoundingBound(KernelMatrixNow, weights, Len(nodes)))

\* |x - y| <= 1e-10: assertClose(x, y, 1e-10) does not throw
Within1e10(x, y) == ~Greater(Abs(Sub(x, y)), <<0, 989, 28823037, 165133755>>)

\* C8, amended: in the exact case construction either fails with
\* SingularMatrix or succeeds; when it succeeds the model returns at every
\* training point values[i] up to the rounding of the solve, an error that
\* grows with the kernel values and the weights and is not always within
\* 1e-8; on the data of Test 1 with the test's kernel it is within the 1e-10
\* the test asserts.
C8_ExactWhenFitted ==
    ExactCase
        => IF phase = "Fitted"
           THEN /\ ExactUpToRounding
                /\ (given.points = TestPoints /\ given.values = TestValues
                        /\ given.func = "thin_plate")
                       => \A i \in 1..Len(TestPoints) :
                              Within1e10(AtTrainingPoint(i).val, TestValues[i])
           ELSE err \in SingularMatrix

\* the wide data fitted with the linear kernel: the value returned at the
\* first training point is off by more than 1e-8
C8_Witness ==
    /\ ExactCase
    /\ phase = "Fitted"
    /\ given.points = WidePoints
    /\ given.values = WideValues
    /\ norm = "linear"
    /\ AtTrainingPoint(1).err = NoError
    /\ ~Within1e8(AtTrainingPoint(1).val, WideValues[1])

\* the sum of weights[i] * phi(|point - nodes[i]|) over the set of indices
RECURSIVE SumOver(_, _)
SumOver(I, point) ==
    IF I = {} THEN Zero
    ELSE LET i == CHOOSE k \in I : \A m \in I : k >= m
         IN  Add(SumOver(I \ {i}, point),
                 Mul(weights[i],
                     Phi(getRbfFunction(given.func).val, epsilon, point, nodes[i])))

\* C9: a successful interpolatePoint(query) returns the sum over all training
\* points i of weights[i] * phi(distance(query, nodes[i])), phi being the
\* kernel named at construction; every training point contributes once.
C9_WeightedKernelSum ==
    (phase = "Fitted" /\ call.op = "interpolatePoint" /\ err = NoError)
        => ret = SumOver(1..Len(nodes), call.query)

C9_Witness ==
    /\ phase = "Fitted"
    /\ call.op = "interpolatePoint"
    /\ err = NoError
    /\ Len(nodes) = 2
    /\ ~IsNaN(ret)
    /\ ret # Zero
    /\ call.query \notin {nodes[1], nodes[2]}

\* C10: a fitted model is immutable: no step taken from a fitted model
\* changes its training points, values, weights, kernel, epsilon or
\* smoothing, or its being fitted.
C10_FittedImmutable ==
    [][phase = "Fitted" => (phase' = "Fitted" /\ fields' = fields)]_vars

C10_Witness ==
    /\ phase = "Fitted"
    /\ call.op = "interpolate"
    /\ Len(call.query) = 2
    /\ err \in DimensionMismatch

\* every point of the list has as many coordinates as the training points
AllOfDimension(pts) == \A k \in 1..Len(pts) : Len(pts[k]) = Len(nodes[1])

\* the first point of the list that has not
FirstWrong(pts) ==
    pts[CHOOSE k \in 1..Len(pts) :
            /\ Len(pts[k]) # Len(nodes[1])
            /\ \A m \in 1..(k - 1) : Len(pts[m]) = Len(nodes[1])]

\* C11: interpolate(queries), every query having the training points'
\* dimension, returns a list as long as queries whose k-th element is the
\* value of the model at queries[k] (the weighted kernel sum), in the order
\* of the input; an empty list of queries gives an empty list.
C11_BatchIsElementwise ==
    (phase = "Fitted" /\ SameDimension(nodes) /\ call.op = "interpolate"
        /\ AllOfDimension(call.query))
        => /\ err = NoError
           /\ Len(ret) = Len(call.query)
           /\ \A k \in 1..Len(call.query) :
                  ret[k] = SumOver(1..Len(nodes), call.query[k])

C11_Witness ==
    /\ phase = "Fitted"
    /\ call.op = "interpolate"
    /\ err = NoError
    /\ Len(call.query) = 2
    /\ Len(ret) = 2
    /\ ~IsNaN(ret[1])
    /\ ~IsNaN(ret[2])
    /\ ret[1] # ret[2]

\* C12: interpolate(queries) with some query of the wrong dimension fails as
\* a whole with the DimensionMismatch error and returns no list, not even the
\* values of the elements before the first wrong one; the step that makes
\* the call and the steps after it leave the model as it was, and the model
\* still gives each valid element of the list the value it has for it alone.
C12_BatchFailsFast ==
    /\ [](  (phase = "Fitted" /\ SameDimension(nodes) /\ call.op = "interpolate"
              /\ ~AllOfDimension(call.query))
           => /\ err = ErrPointDimension(Len(FirstWrong(call.query)), Len(nodes[1]))
              /\ ret = Null
              /\ \A k \in 1..Len(call.query) :
                     Len(call.query[k]) = Len(nodes[1])
                     => interpolatePoint(norm, epsilon, nodes, weights, call.query[k])
                            = Return(SumOver(1..Len(nodes), call.query[k])))
    /\ [][(call'.op = "interpolate" /\ err' \in DimensionMismatch)
              => (phase' = phase /\ fields' = fields)]_vars
    /\ [][(call.op = "interpolate" /\ err \in DimensionMismatch)
              => (phase' = phase /\ fields' = fields)]_vars

C12_Witness ==
    /\ phase = "Fitted"
    /\ SameDimension(nodes)
    /\ call.op = "interpolate"
    /\ Len(call.query) = 2
    /\ Len(call.query[1]) = Len(nodes[1])
    /\ Len(call.query[2]) # Len(nodes[1])
    /\ err = ErrPointDimension(Len(call.query[2]), Len(nodes[1]))
    /\ ret = Null

\* C13: the model owns copies of its training data. While the caller changes
\* a coordinate of one of its points, the length of its list of points, or
\* one of its values, the model's stored points and values stay those given
\* at construction, no field of the model changes, and interpolatePoint
\* returns the value computed from the points given at construction.
C13_OwnsItsTrainingData ==
    /\ [](phase = "Fitted"
            => /\ nodes = given.points
               /\ di = given.values
               /\ (call.op = "interpolatePoint" /\ err = NoError)
                    => ret = WeightedSum(norm, epsilon, given.points, weights,
                                         call.query, 1, Zero))
    /\ [][phase = "Fitted" => fields' = fields]_vars

C13_Witness ==
    /\ phase = "Fitted"
    /\ Len(given.points) = 2
    /\ Len(points) = 2
    /\ points[1] # given.points[1]
    /\ values # given.values
    /\ call.op = "interpolatePoint"
    /\ err = NoError
    /\ ~IsNaN(ret)
    /\ ret # Zero

\* C14: in every fitted model the weights, the stored training points and
\* the stored training values are equally many, as many as the points given
\* at construction, before and after any calls of interpolatePoint and
\* interpolate.
C14_LengthsAgree ==
    phase = "Fitted"
        => /\ Len(weights) = Len(nodes)
           /\ Len(nodes) = Len(di)
           /\ Len(di) = Len(given.points)

C14_Witness ==
    /\ phase = "Fitted"
    /\ Len(given.points) = 2
    /\ Len(weights) = 2
    /\ call.op = "interpolate"
    /\ err = NoError
    /\ Len(ret) = 1

\* every check and step of the construction the caller asked for succeeds:
\* the data pass validation, the kernel name is known and the system solves
ConstructionSucceeds ==
    /\ ValidData
    /\ SameDimension(given.points)
    /\ Recognized
    /\ computeWeights(getRbfFunction(given.func).val,
                      ResolveEpsilon(given.points, given.epsilon),
                      given.points, given.smooth, given.values).err = NoError

\* C15: construction is all-or-nothing. A model is fitted only if the
\* validation of the data (as many values as points, at least one point, all
\* points of one dimension), the resolution of epsilon and of the kernel and
\* the solve all succeeded; a construction that fails throws one of the
\* four kinds of error and leaves no instance: no field is set and no
\* method is called on it.
C15_AllOrNothing ==
    /\ phase = "Fitted" => ConstructionSucceeds
    /\ phase = "Failed"
        => /\ err \in DimensionMismatch \cup EmptyTrainingSet
                      \cup InvalidKernel \cup SingularMatrix
           /\ nodes = Null /\ di = Null /\ weights = Null
           /\ smooth = Null /\ epsilon = Null /\ norm = ""
           /\ call = NoCall

\* what new RbfInterpolator(trainPoints, trainValues, 'thin_plate', smooth,
\* epsilon).interpolate(interpPoints) gives for the data of the rbf() call,
\* smooth being the one passed or else rbf()'s default
ThinPlateOutcome ==
    InterpolateOn(Constructor(given.points, given.values, "thin_plate",
                              IF given.smooth = Null THEN DefaultSmooth
                              ELSE given.smooth,
                              given.epsilon),
                  call.query)

\* C17: rbf() called without func gives what a model built with the
\* thin_plate kernel gives: the same values, or the same error.
C17_RbfDefaultsToThinPlate ==
    (call.op = "rbf" /\ given.func = "")
        => [err |-> err, val |-> ret] = ThinPlateOutcome

\* C18: the epsilon of a fitted model that was built without an epsilon, from
\* points of one dimension, is strictly positive, also when all the N >= 2
\* points coincide.
C18_EstimatedEpsilonPositive ==
    (phase = "Fitted" /\ given.epsilon = Null /\ SameDimension(given.points))
        => Greater(epsilon, Zero)

\* how many of the first m points lie at the place p
CountAt(pts, m, p) == Cardinality({i \in 1..m : pts[i] = p})

\* (p[1] - q[1])^2 + ... + (p[n] - q[n])^2
RECURSIVE SquaredGap(_, _, _)
SquaredGap(p, q, n) ==
    IF n = 0 THEN Zero
    ELSE Add(SquaredGap(p, q, n - 1),
             Mul(Sub(p[n], q[n]), Sub(p[n], q[n])))

\* the Euclidean distance of the two places of the pair
Gap(pair) ==
    LET p == CHOOSE x \in pair : TRUE
        q == CHOOSE x \in pair : x # p
    IN  Sqrt(SquaredGap(p, q, Len(p)))

\* the number of pairs of points one of which lies at each place of the pair
Multiplicity(pair, pts, m) ==
    LET p == CHOOSE x \in pair : TRUE
        q == CHOOSE x \in pair : x # p
    IN  CountAt(pts, m, p) * CountAt(pts, m, q)

\* the sum of the distances over the pairs of places, each counted once for
\* every pair of points lying there
RECURSIVE SumOfGaps(_, _, _)
SumOfGaps(pairs, pts, m) ==
    IF pairs = {} THEN Zero
    ELSE LET pair == CHOOSE x \in pairs : TRUE
         IN  Add(Mul(Gap(pair), Num(Multiplicity(pair, pts, m))),
                 SumOfGaps(pairs \ {pair}, pts, m))

\* the mean distance of the m(m-1)/2 unordered pairs of the first m points:
\* points at the same place are 0 apart
MeanPairwiseDistance(pts, m) ==
    LET places == {pts[i] : i \in 1..m}
        pairs == {pair \in SUBSET places : Cardinality(pair) = 2}
    IN  Div(SumOfGaps(pairs, pts, m), Num((m * (m - 1)) \div 2))

\* C19: the epsilon the constructor stores, without an epsilon given, is the
\* mean Euclidean distance of all unordered pairs of the first min(N, 100)
\* training points (later points do not count) and 1 when N < 2; an epsilon
\* given is the epsilon stored.
C19_EpsilonResolution ==
    (phase # "Unfitted" /\ epsilon # Null)
        => IF given.epsilon # Null THEN epsilon = given.epsilon
           ELSE IF Len(given.points) < 2 THEN epsilon = One
           ELSE epsilon = MeanPairwiseDistance(given.points,
                              IF Len(given.points) < 100 THEN Len(given.points)
                              ELSE 100)

\* more than 100 points, the last one not where the 100th is: the epsilon
\* stored is not the mean over all the points
C19_Witness ==
    /\ frame.pc = "kernel"
    /\ given.epsilon = Null
    /\ Len(given.points) > 100
    /\ given.points[Len(given.points)] # given.points[100]
    /\ epsilon # computeEpsilonOfAll(given.points)
    /\ Greater(epsilon, Zero)
    /\ epsilon # One

\* no weight of the model is NaN
WeightsAreNumbers == \A i \in 1..Len(weights) : ~IsNaN(weights[i])

\* C20: the epsilon of a fitted model is the one resolved from the
\* constructor's arguments and no step changes it or the kernel; the kernel
\* values interpolatePoint computes with it are those the weights were
\* solved for: the stored weights are the solution of the system made of
\* these kernel values, and at every training point i the value
\* interpolatePoint returns plus smooth * weights[i] is the training value i
\* (within 1e-8).
C20_EpsilonFrozen ==
    /\ []((phase = "Fitted" /\ SameDimension(given.points) /\ WeightsAreNumbers)
            => /\ epsilon = ResolveEpsilon(given.points, given.epsilon)
               /\ weights = solveLinearSystem(KernelMatrixNow, di).val
               /\ \A i \in 1..Len(nodes) :
                      Within1e8(Add(interpolatePoint(norm, epsilon, nodes, weights,
                                                     nodes[i]).val,
                                    Mul(smooth, weights[i])),
                                di[i]))
    /\ [][phase = "Fitted" => (epsilon' = epsilon /\ norm' = norm)]_vars

C20_Witness ==
    /\ phase = "Fitted"
    /\ given.epsilon = Null
    /\ norm = "gaussian"
    /\ Len(nodes) = 2
    /\ SameDimension(nodes)
    /\ WeightsAreNumbers
    /\ epsilon \notin {Zero, One}
    /\ weights[1] # Zero
    /\ weights[2] # Zero
    /\ call.op = "interpolatePoint"
    /\ err = NoError

\* phi(0) of each kernel
PhiAtZero(kernel) ==
    IF kernel \in {"multiquadric", "inverse_multiquadric", "gaussian"}
    THEN One ELSE Zero

\* row[1] * w[1] + ... + row[n] * w[n]
RECURSIVE Dot(_, _, _)
Dot(row, w, n) ==
    IF n = 0 THEN Zero ELSE Add(Dot(row, w, n - 1), Mul(row[n], w[n]))

\* C21: for a model fitted from points of one dimension, the matrix of the
\* system has phi(distance(p_i, p_j)) off the diagonal and phi(0) + smooth on
\* it, and is symmetric; the weights are the solver's solution of that
\* system with the training values, in the order given, as right-hand side
\* (A w is the training values within 1e-8); and the value interpolatePoint
\* returns is the weighted kernel sum, without smooth.
C21_SystemHandedToSolver ==
    (phase = "Fitted" /\ SameDimension(given.points))
        => LET A == BuildMatrix(norm, epsilon, nodes, smooth)
               N == Len(given.points)
           IN  /\ Len(A) = N
               /\ \A i, j \in 1..N :
                      /\ A[i][j] = IF i = j THEN Add(PhiAtZero(norm), given.smooth)
                                   ELSE Phi(norm, epsilon, given.points[i],
                                            given.points[j])
                      /\ A[i][j] = A[j][i]
               /\ weights = solveLinearSystem(A, given.values).val
               /\ WeightsAreNumbers
                    => \A i \in 1..N :
                          Within1e8(Dot(A[i], weights, N), given.values[i])
               /\ (call.op = "interpolatePoint" /\ err = NoError)
                    => ret = SumOver(1..N, call.query)

C21_Witness ==
    /\ phase = "Fitted"
    /\ Len(given.points) = 2
    /\ SameDimension(given.points)
    /\ given.points[1] # given.points[2]
    /\ given.values[1] # given.values[2]
    /\ given.smooth # Zero
    /\ norm = "multiquadric"
    /\ WeightsAreNumbers
    /\ call.op = "interpolatePoint"
    /\ err = NoError

\* the constructor followed statement by statement ends as the constructor
\* taken as a whole: the same Error, or the same fields
StepsAgreeWithConstructor ==
    frame.pc \in {"thrown", "returned"}
        => LET r == Constructor(given.points, given.values, given.func,
                                given.smooth, given.epsilon)
           IN  /\ err = r.err
               /\ frame.pc = "returned"
                    => /\ phase = "Fitted"
                       /\ nodes = r.val.nodes /\ di = r.val.di
                       /\ smooth = r.val.smooth /\ epsilon = r.val.epsilon
                       /\ norm = r.val.norm /\ weights = r.val.weights

\* solveLinearSystem is running
Solving == frame.pc \in {"pivot", "check", "eliminate", "back", "store"}

\* the pivot search and the swap, the rows above the current column, and
\* the order of back substitution, as C22 has them
PivotingAndOrder ==
    /\ [][frame.pc = "pivot"
            => LET a == frame.augmented
                   b == frame'.augmented
                   c == frame.col
                   n == Len(frame.augmented)
               IN  \E m \in c..n :
                      /\ \A r \in c..n : ~Greater(Abs(a[r][c]), Abs(a[m][c]))
                      /\ \A r \in c..(m - 1) : Less(Abs(a[r][c]), Abs(a[m][c]))
                      /\ b[c] = a[m]
                      /\ b[m] = a[c]
                      /\ \A r \in (1..n) \ {c, m} : b[r] = a[r]]_vars
    /\ [][frame.pc \in {"pivot", "check", "eliminate"}
            => \A r \in 1..(frame.col - 1) :
                  frame'.augmented[r] = frame.augmented[r]]_vars
    /\ [][(frame.pc = "eliminate" /\ frame'.pc = "back")
            => frame'.i = Len(frame.augmented)]_vars
    /\ [][frame.pc = "back"
            => /\ frame'.i = frame.i - 1
               /\ frame'.augmented = frame.augmented
               /\ \A k \in 1..Len(frame.x) :
                      k # frame.i => frame'.x[k] = frame.x[k]
               /\ frame'.pc = "store" <=> frame.i = 1]_vars

\* the entries below the diagonal of the columns already eliminated
Eliminated ==
    {<<r, c>> \in (1..Len(frame.augmented)) \X (1..(frame.col - 1)) : r > c}

\* C22 as claimed: in the solver, the swap of column c puts at row c the
\* lowest row among c..n whose entry in column c has the largest absolute
\* value, and exchanges only these two rows; no step changes a row above the
\* current column; once a column is eliminated its entries below the
\* diagonal are zero; back substitution starts at the last row, goes up one
\* row a turn, sets only that row's unknown, and ends after the first row.
C22_PartialPivoting ==
    /\ PivotingAndOrder
    /\ [](Solving => \A e \in Eliminated : IsZero(frame.augmented[e[1]][e[2]]))

\* C22, amended: the swap, the rows above the current column and the back
\* substitution are as claimed; once a column c is eliminated, an entry
\* below its diagonal is what the rounding of entry - (entry / pivot) * pivot
\* leaves: zero, or a number of magnitude at most 2^-51 times that of the
\* pivot of column c.
C22_PivotingUpToRounding ==
    /\ PivotingAndOrder
    /\ [](Solving
            => \A e \in Eliminated :
                  ~Greater(Abs(frame.augmented[e[1]][e[2]]),
                           Mul(TwoTo(-51), Abs(frame.augmented[e[2]][e[2]]))))

\* a system of three has been eliminated with another row than the first
\* at the top, a rounding error is left below the diagonal, and back
\* substitution has solved the last row and is at the second
C22_Witness ==
    /\ frame.pc = "back"
    /\ frame.i = 2
    /\ Len(frame.augmented) = 3
    /\ \E e \in Eliminated : ~IsZero(frame.augmented[e[1]][e[2]])
    /\ ~IsZero(frame.x[3])
    /\ IsZero(frame.x[2])
    /\ LET A == Augmented(BuildMatrix(norm, epsilon, nodes, smooth), di)
       IN  frame.augmented[1] # A[1]

\* |x| < 1e-12, read off the bits of x: 1e-12 is the double
\* (18446744 * 2^28 + 19786257) * 2^(983 - 1075)
Under1e12(x) ==
    \/ x[2] < 983
    \/ x[2] = 983 /\ x[3] < 18446744
    \/ x[2] = 983 /\ x[3] = 18446744 /\ x[4] < 19786257

\* the pivot the solver is looking at
Pivot == frame.augmented[frame.col][frame.col]

\* C23: the solver throws the SingularMatrix error exactly when the pivot of
\* some column is below 1e-12 in magnitude. The test is made on the row
\* swapped in (the entry tested is the largest of its column from the
\* diagonal down) and before the column is eliminated; a pivot below 1e-12
\* ends the construction at once with that error and without weights, a
\* pivot not below it lets the elimination go on unchanged; the column that
\* throws is the first with such a pivot, and a construction that returns
\* has met none.
C23_SingularExactlyOnTinyPivot ==
    /\ [][frame.pc = "check"
            => IF Under1e12(Pivot)
               THEN /\ frame'.pc = "thrown"
                    /\ phase' = "Failed"
                    /\ err' \in SingularMatrix
                    /\ weights' = Null
               ELSE /\ frame'.pc = "eliminate"
                    /\ frame'.augmented = frame.augmented
                    /\ frame'.col = frame.col
                    /\ err' = NoError]_vars
    /\ [][(err' \in SingularMatrix /\ err \notin SingularMatrix)
            => frame.pc = "check"]_vars
    /\ [](frame.pc = "check"
            => \A r \in frame.col..Len(frame.augmented) :
                  ~Greater(Abs(frame.augmented[r][frame.col]), Abs(Pivot)))
    /\ [](err \in SingularMatrix
            => /\ phase = "Failed"
               /\ weights = Null
               /\ Under1e12(Pivot)
               /\ \A c \in 1..(frame.col - 1) :
                      ~Under1e12(frame.augmented[c][c]))
    /\ [](frame.pc = "returned"
            => \A c \in 1..Len(frame.augmented) :
                  ~Under1e12(frame.augmented[c][c]))

\* the second column of a system of three throws on a pivot that is not
\* zero
C23_Witness ==
    /\ frame.pc = "thrown"
    /\ err \in SingularMatrix
    /\ Len(frame.augmented) = 3
    /\ frame.col = 2
    /\ ~IsZero(Pivot)
    /\ ~IsZero(frame.augmented[1][1])

\* the faults of the arguments of the constructor that is running or has ended
LengthsDiffer == Len(given.points) # Len(given.values)

NoPointsGiven == Len(given.points) = 0

NameUnknown == ToLowerCase(given.func) \notin KernelNames

\* the statements of the constructor in the order of the source, the solve
\* being the statements from the pivot search to the back substitution
StepOrder ==
    <<"lengths", "empty", "copy", "epsilon", "kernel", "matrix", "pivot",
      "check", "eliminate", "back", "store", "returned">>

Rank(pc) == CHOOSE k \in 1..Len(StepOrder) : StepOrder[k] = pc

\* C24: the constructor checks the lengths, checks for emptiness, copies the
\* training data, resolves epsilon, resolves the kernel name, builds the
\* matrix, solves and stores the weights, in this order: a statement is
\* followed by the next one (the solve going back to the pivot search for
\* the next column) or by a throw, each field is written by its own
\* statement only and after the fields of the statements before it, and
\* only the two checks, the kernel resolution and the pivot check throw.
\* With several faults the error thrown is that of the first statement that
\* meets one: differing lengths whatever else is wrong, then no points, then
\* an unknown kernel name, and the singular matrix last; a constructor that
\* returns has met no fault.
C24_StepsInOrder ==
    /\ [][(frame.pc \notin {"idle", "thrown", "returned"} /\ frame'.pc # frame.pc)
            => \/ frame'.pc = StepOrder[Rank(frame.pc) + 1]
               \/ frame.pc = "eliminate" /\ frame'.pc = "pivot"
               \/ /\ frame'.pc = "thrown"
                  /\ frame.pc \in {"lengths", "empty", "kernel", "check"}]_vars
    /\ [][((nodes' # nodes \/ di' # di \/ smooth' # smooth)
               => (frame.pc = "copy" \/ frame'.pc = "thrown"))
          /\ (epsilon' # epsilon => (frame.pc = "epsilon" \/ frame'.pc = "thrown"))
          /\ (norm' # norm => (frame.pc = "kernel" \/ frame'.pc = "thrown"))
          /\ (weights' # weights => frame.pc = "store")]_vars
    /\ [](phase \in {"Constructing", "Fitted"}
            => /\ (nodes # Null) => (~LengthsDiffer /\ ~NoPointsGiven)
               /\ (nodes # Null) <=> (di # Null)
               /\ (nodes # Null) <=> (smooth # Null)
               /\ (epsilon # Null) => (nodes # Null)
               /\ (norm # "") => (epsilon # Null)
               /\ (frame.augmented # Null) => (norm # "")
               /\ (frame.x # Null) => (frame.augmented # Null)
               /\ (weights # Null) => (frame.x = weights))
    /\ [](frame.pc = "thrown"
            => /\ LengthsDiffer => err = ErrLengthMismatch
               /\ (~LengthsDiffer /\ NoPointsGiven) => err = ErrNoPoints
               /\ (~LengthsDiffer /\ ~NoPointsGiven /\ NameUnknown)
                      => err \in InvalidKernel
               /\ err \in SingularMatrix
                      => (~LengthsDiffer /\ ~NoPointsGiven /\ ~NameUnknown)
               /\ err \in {ErrLengthMismatch, ErrNoPoints,
                            ErrUnknownFunction(given.func), ErrSingular})
    /\ [](frame.pc = "returned"
            => (~LengthsDiffer /\ ~NoPointsGiven /\ ~NameUnknown))

\* an unknown kernel name with two training points at one place and no
\* smoothing, data on which the linear kernel gives a singular matrix
C24_Witness ==
    /\ frame.pc = "thrown"
    /\ given.func = "nearest"
    /\ Len(given.points) = 2
    /\ given.points[1] = given.points[2]
    /\ given.smooth = Zero
    /\ err \in InvalidKernel
    /\ Constructor(given.points, given.values, "linear", given.smooth,
                   given.epsilon).err \in SingularMatrix

\* no points, some values and an unknown kernel name: the lengths are reported
C24_WitnessLengthsFirst ==
    /\ frame.pc = "thrown"
    /\ NoPointsGiven
    /\ Len(given.values) > 0
    /\ NameUnknown
    /\ err = ErrLengthMismatch
====
